---- MODULE Spec2Model ----
(***************************************************************************)
(* A model of freshrss_mcp: the FreshRSSClient (client.py), the tool layer *)
(* registered on the MCP server (tools.py) and the entry point main()      *)
(* (server.py).  Python values are tagged records, Python strings are TLA+ *)
(* strings, and the httpx transport is the client's is_closed flag plus    *)
(* the reply each request draws from a bounded set.                        *)
(***************************************************************************)
EXTENDS Integers, Sequences, FiniteSets, TLC

VARIABLES
    host,        \* who drives the client: "main" (server.py) or "library" (an embedding caller)
    pc,          \* main()'s position
    auth_token,  \* FreshRSSClient._auth_token
    is_closed,   \* FreshRSSClient._client.is_closed
    releases,    \* how many times the underlying transport was released
    auth_calls,  \* how many times authenticate() was invoked
    granted,     \* the token the last successful authenticate() returned, None before any
    hashseed,    \* the process's string-hash randomisation
    last,        \* the last completed operation: its inputs, its outcome, its transport calls
    arg,         \* input of the pure function under check; of each tool call in flight
    ret          \* its result; the progress of each tool call in flight

vars == <<host, pc, auth_token, is_closed, releases, auth_calls, granted, hashseed, last, arg, ret>>

-----------------------------------------------------------------------------
(* Bounds of the model. *)

MaxSeed == 1

MaxReleases == 3

MaxAuthCalls == 2

MaxLines == 2

MaxItems == 2

MaxInt == 12

\* longest generated summary text
MaxStrLen == 5

-----------------------------------------------------------------------------
(* Python values. *)

PyNone == [t |-> "None"]

PyStr(s) == [t |-> "str", v |-> s]

PyInt(n) == [t |-> "int", v |-> n]

PyBool(b) == [t |-> "bool", v |-> b]

PyList(q) == [t |-> "list", v |-> q]

PyDict(f) == [t |-> "dict", v |-> f]

EmptyDict == PyDict([k \in {} |-> PyNone])

\* bool(v): Python truthiness
Truthy(v) ==
    CASE v.t = "None" -> FALSE
      [] v.t = "str" -> v.v # ""
      [] v.t = "int" -> v.v # 0
      [] v.t = "bool" -> v.v
      [] v.t = "list" -> Len(v.v) > 0
      [] v.t = "dict" -> DOMAIN v.v # {}
      [] OTHER -> TRUE

\* an exception object: its class, str(e), and the class of its __cause__
Exc(cls, msg) == [cls |-> cls, msg |-> msg, cause |-> "none"]

Ok(v) == [ok |-> TRUE, val |-> v]

Raise(e) == [ok |-> FALSE, err |-> e]

-----------------------------------------------------------------------------
(* Python string operations. *)

\* s.startswith(p)
StartsWith(s, p) == Len(s) >= Len(p) /\ SubSeq(s, 1, Len(p)) = p

\* s[n:]
SliceFrom(s, n) == IF Len(s) <= n THEN "" ELSE SubSeq(s, n + 1, Len(s))

\* s[:n], a negative n counting from the end
SliceTo(s, n) ==
    LET m == IF n < 0 THEN Len(s) + n ELSE n IN
    IF m <= 0 THEN "" ELSE IF Len(s) <= m THEN s ELSE SubSeq(s, 1, m)

\* sub in s
Contains(s, sub) ==
    \E i \in 1..(Len(s) - Len(sub) + 1) : SubSeq(s, i, i + Len(sub) - 1) = sub

\* index of the first occurrence, from i on, of the one-character string c in s, 0 if none
FindChar(s, c, i) ==
    IF \E j \in i..Len(s) : SubSeq(s, j, j) = c
    THEN CHOOSE j \in i..Len(s) :
             SubSeq(s, j, j) = c /\ \A k \in i..(j - 1) : SubSeq(s, k, k) # c
    ELSE 0

\* s.split(c) for a one-character separator: a sequence of strings
RECURSIVE SplitAt(_, _, _)
SplitAt(s, c, i) ==
    IF i = 0 THEN <<s>>
    ELSE <<SliceTo(s, i - 1)>> \o SplitAt(SliceFrom(s, i), c, FindChar(SliceFrom(s, i), c, 1))

Split(s, c) == SplitAt(s, c, FindChar(s, c, 1))

-----------------------------------------------------------------------------
(* int(s, base) and hash(s).                                               *)

DigitVal(c) ==
    CASE c = "0" -> 0 [] c = "1" -> 1 [] c = "2" -> 2 [] c = "3" -> 3 [] c = "4" -> 4
      [] c = "5" -> 5 [] c = "6" -> 6 [] c = "7" -> 7 [] c = "8" -> 8 [] c = "9" -> 9
      [] c \in {"a", "A"} -> 10 [] c \in {"b", "B"} -> 11 [] c \in {"c", "C"} -> 12
      [] c \in {"d", "D"} -> 13 [] c \in {"e", "E"} -> 14 [] c \in {"f", "F"} -> 15
      [] OTHER -> 99

IsSpace(c) == c \in {" ", "\t", "\n", "\r"}

\* s.strip()
RECURSIVE LStrip(_)
LStrip(s) == IF s # "" /\ IsSpace(Head(s)) THEN LStrip(Tail(s)) ELSE s

RECURSIVE RStrip(_)
RStrip(s) ==
    IF s # "" /\ IsSpace(SubSeq(s, Len(s), Len(s))) THEN RStrip(SubSeq(s, 1, Len(s) - 1)) ELSE s

\* the digits of s read onto acc in the base, underscores passed over: the first half of s,
\* then the second
RECURSIVE DigitsFold(_, _, _)
DigitsFold(s, base, acc) ==
    IF Len(s) = 0 THEN acc
    ELSE IF Len(s) = 1 THEN (IF s = "_" THEN acc ELSE acc * base + DigitVal(s))
    ELSE CHOOSE r \in {DigitsFold(SubSeq(s, Len(s) \div 2 + 1, Len(s)), base, m) :
                          m \in {DigitsFold(SubSeq(s, 1, Len(s) \div 2), base, acc)}} : TRUE

\* a digit string that int() rejects: a character that is no digit of the base, an underscore
\* right after an underscore, or an underscore at the end
Malformed(s, base, prevUnderscore) ==
    \/ \E i \in 1..Len(s) : SubSeq(s, i, i) # "_" /\ DigitVal(SubSeq(s, i, i)) >= base
    \/ \E i \in 1..Len(s) :
          /\ SubSeq(s, i, i) = "_"
          /\ IF i = 1 THEN prevUnderscore ELSE SubSeq(s, i - 1, i - 1) = "_"
    \/ IF s = "" THEN prevUnderscore ELSE SubSeq(s, Len(s), Len(s)) = "_"

\* the value of a digit string in the base (single underscores may separate digits), -1 if malformed
DigitsValue(s, base, acc, prevUnderscore) ==
    IF Malformed(s, base, prevUnderscore) THEN -1 ELSE DigitsFold(s, base, acc)

\* the value of the digits w, which may not be empty nor start with an underscore
Digits(w, base) == IF w = "" \/ Head(w) = "_" THEN -1 ELSE DigitsValue(w, base, 0, FALSE)

\* the value of an unsigned literal u: in base 16 a 0x prefix (and one underscore after it) may lead
Magnitude(u, base) ==
    IF base = 16 /\ Len(u) >= 2 /\ SubSeq(u, 1, 2) \in {"0x", "0X"}
    THEN (IF Len(u) >= 3 /\ SubSeq(u, 3, 3) = "_"
          THEN Digits(SliceFrom(u, 3), base) ELSE Digits(SliceFrom(u, 2), base))
    ELSE Digits(u, base)

\* the int of a sign and a magnitude n, ValueError when the literal was malformed (n < 0)
Signed(neg, n) ==
    IF n < 0 THEN Raise(Exc("ValueError", "invalid literal for int()"))
    ELSE Ok(PyInt(IF neg THEN -n ELSE n))

\* int of the stripped literal t
SignedLiteral(t, base) ==
    IF t # "" /\ Head(t) \in {"+", "-"}
    THEN Signed(Head(t) = "-", Magnitude(Tail(t), base))
    ELSE Signed(FALSE, Magnitude(t, base))

\* int(s, base) for base 10 or 16: Ok(PyInt(n)) or ValueError
ParseInt(s, base) == SignedLiteral(RStrip(LStrip(s)), base)

Ord(c) ==
    CASE c = "/" -> 47 [] c = ":" -> 58 [] c = "," -> 44 [] c = "." -> 46 [] c = " " -> 32
      [] c = "_" -> 95 [] c = "-" -> 45 [] c = "+" -> 43
      [] DigitVal(c) < 10 -> 48 + DigitVal(c)
      [] DigitVal(c) < 16 -> 87 + DigitVal(c)
      [] OTHER -> 120

\* a multiplicative string hash over 25 bits: h mixed with the first half of s, then the second
RECURSIVE HashMix(_, _)
HashMix(s, h) ==
    IF Len(s) = 0 THEN h
    ELSE IF Len(s) = 1 THEN (h * 31 + Ord(s)) % 33554432
    ELSE CHOOSE r \in {HashMix(SubSeq(s, Len(s) \div 2 + 1, Len(s)), m) :
                          m \in {HashMix(SubSeq(s, 1, Len(s) \div 2), h)}} : TRUE

\* hash(s) of a str: 0 for the empty string, otherwise a signed value that depends on the
\* process's seed (the 64-bit hash, scaled to the integer width of the checker)
PyHash(s, seed) ==
    IF s = "" THEN 0
    ELSE (HashMix(s, 7919 * (seed + 1)) - 16777216) * 60

-----------------------------------------------------------------------------
(* The identifier normalisers and the article parser (client.py).          *)

FeedHashBound == 1000000

ArticleHashBound == 1000000000

\* try: return int(...) except ValueError: the fallback
IntOr(n, fallback) == IF n.ok THEN n.val.v ELSE fallback

\* int(feed_id_str), or its hash as it is
feed_int_or_hash_unbounded(body, seed) == IntOr(ParseInt(body, 10), PyHash(body, seed))

\* int(feed_id_str), or its hash below the bound
feed_int_or_hash(body, seed) == IntOr(ParseInt(body, 10), PyHash(body, seed) % FeedHashBound)

\* _extract_feed_id cutting one character too few off the prefix
extract_feed_id_str_short(s, seed) ==
    feed_int_or_hash(IF StartsWith(s, "feed/") THEN SliceFrom(s, 4) ELSE s, seed)

\* _extract_feed_id(feed_id_str) of a str
extract_feed_id_str(s, seed) ==
    feed_int_or_hash(IF StartsWith(s, "feed/") THEN SliceFrom(s, 5) ELSE s, seed)

\* _extract_feed_id on whatever the JSON holds: a non-str has no startswith
extract_feed_id(x, seed) ==
    IF x.t # "str" THEN Raise(Exc("AttributeError", "object has no attribute 'startswith'"))
    ELSE Ok(PyInt(extract_feed_id_str(x.v, seed)))

\* parts[-1]
Last(parts) == parts[Len(parts)]

\* int(raw, 16) tried before int(raw)
item_int_or_hexfirst(raw, fallback) == IntOr(ParseInt(raw, 16), IntOr(ParseInt(raw, 10), fallback))

\* int(raw), else int(raw, 16), else the fallback
item_int_or(raw, fallback) == IntOr(ParseInt(raw, 10), IntOr(ParseInt(raw, 16), fallback))

\* _extract_article_id(article_id_str) of a str
extract_article_id_str(s, seed) ==
    IF Contains(s, "reader/item/")
    THEN item_int_or(Last(Split(s, "/")), PyHash(s, seed) % ArticleHashBound)
    ELSE PyHash(s, seed) % ArticleHashBound

\* _extract_article_id on whatever the JSON holds
extract_article_id(x, seed) ==
    CASE x.t = "str" -> Ok(PyInt(extract_article_id_str(x.v, seed)))
      [] x.t \in {"list", "dict"} -> Raise(Exc("TypeError", "unhashable type"))
      [] OTHER -> Raise(Exc("TypeError", "argument is not iterable"))

\* d.get(k, default)
PyGet(d, k, default) ==
    IF d.t # "dict" THEN Raise(Exc("AttributeError", "object has no attribute 'get'"))
    ELSE Ok(IF k \in DOMAIN d.v THEN d.v[k] ELSE default)

\* s in c, for a str s
PyIn(s, c) ==
    CASE c.t = "list" -> Ok(\E i \in 1..Len(c.v) : c.v[i].t = "str" /\ c.v[i].v = s)
      [] c.t = "str" -> Ok(Contains(c.v, s))
      [] c.t = "dict" -> Ok(s \in DOMAIN c.v)
      [] OTHER -> Raise(Exc("TypeError", "argument is not iterable"))

\* alternates[0].get("href", "") if alternates else ""
FirstHref(alternates) ==
    IF ~Truthy(alternates) THEN Ok(PyStr(""))
    ELSE CASE alternates.t = "list" -> PyGet(alternates.v[1], "href", PyStr(""))
           [] alternates.t = "str" -> Raise(Exc("AttributeError", "'str' object has no attribute 'get'"))
           [] alternates.t = "dict" -> Raise(Exc("KeyError", "0"))
           [] OTHER -> Raise(Exc("TypeError", "object is not subscriptable"))

ReadTag == "user/-/state/com.google/read"

StarredTag == "user/-/state/com.google/starred"

\* self._extract_article_id(item.get("id", ""))
article_id_of(id, seed) == IF id.ok THEN extract_article_id(id.val, seed) ELSE id

\* origin.get("title", "Unknown Feed")
feed_name_of(origin) ==
    IF origin.ok THEN PyGet(origin.val, "title", PyStr("Unknown Feed")) ELSE origin

\* content.get("content", "") if content, else ""
summary_of(content) ==
    IF content.ok /\ Truthy(content.val)
    THEN PyGet(content.val, "content", PyStr("")) ELSE Ok(PyStr(""))

\* both flags read off the read tag
has_tag_read(tag, categories) == IF categories.ok THEN PyIn(ReadTag, categories.val) ELSE categories

\* tag in categories
has_tag(tag, categories) == IF categories.ok THEN PyIn(tag, categories.val) ELSE categories

\* alternates[0].get("href", "") if alternates else "", of the alternates read from the item
url_of(alternates) == IF alternates.ok THEN FirstHref(alternates.val) ELSE alternates

\* the statements of the try block in order: the first that raised, else the Article
article_of(article_id, feed_name, summary, is_read, is_starred, url, title, published) ==
    CASE ~article_id.ok -> article_id
      [] ~feed_name.ok -> feed_name
      [] ~summary.ok -> summary
      [] ~is_read.ok -> is_read
      [] ~is_starred.ok -> is_starred
      [] ~url.ok -> url
      [] OTHER -> Ok([t |-> "Article",
                      id |-> article_id.val.v,
                      title |-> title.val,
                      summary |-> summary.val,
                      url |-> url.val,
                      published |-> published.val,
                      feed_name |-> feed_name.val,
                      is_read |-> is_read.val,
                      is_starred |-> is_starred.val])

\* the body of _parse_article's try block: Ok(Article) or the exception raised in it
parse_article_try(item, seed) ==
    article_of(article_id_of(PyGet(item, "id", PyStr("")), seed),
               feed_name_of(PyGet(item, "origin", EmptyDict)),
               summary_of(PyGet(item, "summary", EmptyDict)),
               has_tag(ReadTag, PyGet(item, "categories", PyList(<<>>))),
               has_tag(StarredTag, PyGet(item, "categories", PyList(<<>>))),
               url_of(PyGet(item, "alternate", PyList(<<>>))),
               PyGet(item, "title", PyStr("Untitled")),
               PyGet(item, "published", PyInt(0)))

\* except Exception: return None
none_if_raised(r) == IF r.ok THEN r.val ELSE PyNone

\* _parse_article reading item["title"]: a record without a title raises KeyError in the try block
parse_article_strict(item, seed) ==
    IF item.t = "dict" /\ "title" \notin DOMAIN item.v THEN PyNone
    ELSE none_if_raised(parse_article_try(item, seed))

\* _parse_article(item): the Article, or None when anything in the try block raised
parse_article(item, seed) == none_if_raised(parse_article_try(item, seed))

-----------------------------------------------------------------------------
(* The transport: httpx.AsyncClient.                                       *)

ClosedMsg == "Cannot send a request, as the client has been closed."

\* what the network can answer to the credential POST
AuthLines == {"SID=abc", "SID=", "LSID=def", "SID=xyz"}

\* the body the service sends for a sequence of lines
RECURSIVE JoinLines(_)
JoinLines(lines) ==
    IF Len(lines) = 0 THEN ""
    ELSE IF Len(lines) = 1 THEN lines[1]
    ELSE lines[1] \o "\n" \o JoinLines(Tail(lines))

\* all sequences over S of length at most n
RECURSIVE SeqsUpTo(_, _)
SeqsUpTo(S, n) ==
    IF n = 0 THEN {<<>>}
    ELSE LET P == SeqsUpTo(S, n - 1) IN P \cup {Append(q, x) : q \in P, x \in S}

TransportErrors == {Exc("ConnectError", "connection failed"), Exc("RuntimeError", "connection lost")}

NetFailures == [t : {"exc"}, err : TransportErrors]

AuthReplies ==
    NetFailures
    \cup {[t |-> "resp", status |-> c, body |-> JoinLines(q), lines |-> q] :
             c \in {200, 204}, q \in SeqsUpTo(AuthLines, MaxLines)}
    \cup [t : {"resp"}, status : {302, 401, 403, 500}, body : {""}, lines : {<<>>}]

\* response.raise_for_status(): only a 2xx passes
IsSuccess(status) == status >= 200 /\ status <= 299

\* a transport that sends whether or not it has been closed
Send_after_close(closed, reply) ==
    IF reply.t = "exc" THEN [out |-> Raise(reply.err), net |-> 1]
    ELSE IF ~IsSuccess(reply.status)
         THEN [out |-> Raise([cls |-> "HTTPStatusError",
                              msg |-> "HTTP status " \o ToString(reply.status),
                              cause |-> "none",
                              status |-> reply.status]),
               net |-> 1]
    ELSE [out |-> Ok(reply), net |-> 1]

\* await self._client.get(...) / post(...) followed by response.raise_for_status():
\* the response, or the exception raised; net = 1 iff a request reached the network
Send(closed, reply) ==
    IF closed THEN [out |-> Raise(Exc("RuntimeError", ClosedMsg)), net |-> 0]
    ELSE IF reply.t = "exc" THEN [out |-> Raise(reply.err), net |-> 1]
    ELSE IF ~IsSuccess(reply.status)
         THEN [out |-> Raise([cls |-> "HTTPStatusError",
                              msg |-> "HTTP status " \o ToString(reply.status),
                              cause |-> "none",
                              status |-> reply.status]),
               net |-> 1]
    ELSE [out |-> Ok(reply), net |-> 1]

-----------------------------------------------------------------------------
(* FreshRSSClient: the authenticated session.                              *)

AuthenticationError(msg, cause) == [cls |-> "AuthenticationError", msg |-> msg, cause |-> cause]

\* the first line of the body that starts with "SID=", 0 if none
RECURSIVE FirstSid(_, _)
FirstSid(lines, i) ==
    IF i > Len(lines) THEN 0
    ELSE IF StartsWith(lines[i], "SID=") THEN i
    ELSE FirstSid(lines, i + 1)

ApiUrl == "{api}"

\* authenticate() without its last except clause: a transport error escapes as it is
authenticate_nowrap(tok, closed, reply) ==
    LET req == [method |-> "POST", url |-> ApiUrl \o "/accounts/ClientLogin"]
        sent == Send(closed, reply)
    IN
    IF ~sent.out.ok
    THEN LET e == sent.out.err IN
         [out |-> Raise(IF e.cls = "HTTPStatusError"
                        THEN AuthenticationError("Authentication failed: " \o ToString(e.status), e.cls)
                        ELSE e),
          token |-> tok, reqs |-> <<req>>, net |-> sent.net]
    ELSE LET lines == Split(reply.body, "\n")
             i == FirstSid(lines, 1)
         IN IF i = 0
            THEN [out |-> Raise(AuthenticationError("No SID found in authentication response", "none")),
                  token |-> tok, reqs |-> <<req>>, net |-> sent.net]
            ELSE [out |-> Ok(PyStr(SliceFrom(lines[i], 4))),
                  token |-> PyStr(SliceFrom(lines[i], 4)), reqs |-> <<req>>, net |-> sent.net]

\* authenticate() forgetting the token it held when it fails
authenticate_forgets(tok, closed, reply) ==
    LET req == [method |-> "POST", url |-> ApiUrl \o "/accounts/ClientLogin"]
        sent == Send(closed, reply)
    IN
    IF ~sent.out.ok
    THEN LET e == sent.out.err IN
         [out |-> Raise(IF e.cls = "HTTPStatusError"
                        THEN AuthenticationError("Authentication failed: " \o ToString(e.status), e.cls)
                        ELSE AuthenticationError("Authentication error: " \o e.msg, e.cls)),
          token |-> PyNone, reqs |-> <<req>>, net |-> sent.net]
    ELSE LET lines == Split(reply.body, "\n")
             i == FirstSid(lines, 1)
         IN IF i = 0
            THEN [out |-> Raise(AuthenticationError("No SID found in authentication response", "none")),
                  token |-> PyNone, reqs |-> <<req>>, net |-> sent.net]
            ELSE [out |-> Ok(PyStr(SliceFrom(lines[i], 4))),
                  token |-> PyStr(SliceFrom(lines[i], 4)), reqs |-> <<req>>, net |-> sent.net]

\* authenticate(): the outcome, the token held afterwards, the requests made
authenticate(tok, closed, reply) ==
    LET req == [method |-> "POST", url |-> ApiUrl \o "/accounts/ClientLogin"]
        sent == Send(closed, reply)
    IN
    IF ~sent.out.ok
    THEN LET e == sent.out.err IN
         [out |-> Raise(IF e.cls = "HTTPStatusError"
                        THEN AuthenticationError("Authentication failed: " \o ToString(e.status), e.cls)
                        ELSE AuthenticationError("Authentication error: " \o e.msg, e.cls)),
          token |-> tok, reqs |-> <<req>>, net |-> sent.net]
    ELSE LET lines == Split(reply.body, "\n")
             i == FirstSid(lines, 1)
         IN IF i = 0
            THEN [out |-> Raise(AuthenticationError("No SID found in authentication response", "none")),
                  token |-> tok, reqs |-> <<req>>, net |-> sent.net]
            ELSE [out |-> Ok(PyStr(SliceFrom(lines[i], 4))),
                  token |-> PyStr(SliceFrom(lines[i], 4)), reqs |-> <<req>>, net |-> sent.net]

NotAuthenticatedMsg == "Not authenticated. Call authenticate() first."

\* _get_auth_headers()
get_auth_headers(tok) ==
    IF ~Truthy(tok)
    THEN Raise(AuthenticationError(NotAuthenticatedMsg, "none"))
    ELSE Ok([Authorization |-> "GoogleLogin auth=" \o tok.v])

-----------------------------------------------------------------------------
(* FreshRSSClient: the feed operations.                                    *)

\* response.json(): the decoded body, or the decoder's error
Json(body) ==
    IF body.t = "invalid" THEN Raise(Exc("JSONDecodeError", "Expecting value")) ELSE Ok(body)

RECURSIVE SetToSeq(_)
SetToSeq(S) == IF S = {} THEN <<>> ELSE LET x == CHOOSE y \in S : TRUE IN <<x>> \o SetToSeq(S \ {x})

\* for x in v: the elements a Python for-loop visits
PyIter(v) ==
    CASE v.t = "list" -> Ok(v.v)
      [] v.t = "str" -> Ok([i \in 1..Len(v.v) |-> PyStr(SubSeq(v.v, i, i))])
      [] v.t = "dict" -> Ok([i \in 1..Cardinality(DOMAIN v.v) |-> PyStr(SetToSeq(DOMAIN v.v)[i])])
      [] OTHER -> Raise(Exc("TypeError", "object is not iterable"))

\* an authenticated request that builds its headers only after the transport call
Request_sendfirst(tok, closed, reply, req) ==
    LET sent == Send(closed, reply)
        h == get_auth_headers(tok)
    IN IF ~h.ok THEN [out |-> h, reqs |-> <<req>>, net |-> sent.net]
       ELSE [out |-> sent.out, reqs |-> <<[req EXCEPT !.headers = h.val]>>, net |-> sent.net]

\* an authenticated request that is sent once more when it failed
Request_retried(tok, closed, reply, req) ==
    LET h == get_auth_headers(tok) IN
    IF ~h.ok THEN [out |-> h, reqs |-> <<>>, net |-> 0]
    ELSE LET sent == Send(closed, reply) IN
         IF sent.out.ok
         THEN [out |-> sent.out, reqs |-> <<[req EXCEPT !.headers = h.val]>>, net |-> sent.net]
         ELSE [out |-> sent.out,
               reqs |-> <<[req EXCEPT !.headers = h.val], [req EXCEPT !.headers = h.val]>>,
               net |-> 2 * sent.net]

\* an authenticated request: headers first, then the transport call and raise_for_status()
Request(tok, closed, reply, req) ==
    LET h == get_auth_headers(tok) IN
    IF ~h.ok THEN [out |-> h, reqs |-> <<>>, net |-> 0]
    ELSE LET sent == Send(closed, reply) IN
         [out |-> sent.out, reqs |-> <<[req EXCEPT !.headers = h.val]>>, net |-> sent.net]

\* data.get(key, []) of the decoded body, as the sequence the loop visits
Entries(body, key) ==
    LET data == Json(body)
        got == IF data.ok THEN PyGet(data.val, key, PyList(<<>>)) ELSE data
    IN IF got.ok THEN PyIter(got.val) ELSE got

\* self._extract_feed_id(entry.get("id", ""))
feed_id_of(id, seed) == IF id.ok THEN extract_feed_id(id.val, seed) ELSE id

\* Feed(id=fid, name=sub.get("title", "Unknown"), url=sub.get("url", "")) before the rest
feed_then(sub, fid, rest) ==
    IF ~fid.ok THEN fid
    ELSE IF ~rest.ok THEN rest
    ELSE Ok(<<[t |-> "Feed",
               id |-> fid.val.v,
               name |-> PyGet(sub, "title", PyStr("Unknown")).val,
               url |-> PyGet(sub, "url", PyStr("")).val,
               unread_count |-> PyInt(0)]>> \o rest.val)

\* the loop of list_feeds: one Feed per subscription, in source order
RECURSIVE feeds_of(_, _)
feeds_of(subs, seed) ==
    IF Len(subs) = 0 THEN Ok(<<>>)
    ELSE feed_then(Head(subs), feed_id_of(PyGet(Head(subs), "id", PyStr("")), seed),
                   feeds_of(Tail(subs), seed))

\* list_feeds()
list_feeds(tok, closed, reply, seed) ==
    LET r == Request(tok, closed, reply,
                     [method |-> "GET", url |-> ApiUrl \o "/reader/api/0/subscription/list",
                      headers |-> <<>>, params |-> [output |-> "json"]])
        subs == Entries(reply.body, "subscriptions")
    IN IF ~r.out.ok THEN r
       ELSE IF ~subs.ok THEN [r EXCEPT !.out = subs]
       ELSE [r EXCEPT !.out = feeds_of(subs.val, seed)]

\* the loop of get_unread_counts: feed id -> count, entries with a falsy id skipped
RECURSIVE counts_of(_, _, _)
RECURSIVE counted(_, _, _, _, _)
counts_of(items, seed, acc) ==
    IF Len(items) = 0 THEN Ok(acc)
    ELSE counted(Tail(items), seed, acc,
                 feed_id_of(PyGet(Head(items), "id", PyStr("")), seed),
                 PyGet(Head(items), "count", PyInt(0)))

\* one turn of that loop, for the entry's feed id and count, then the turns that follow
counted(items, seed, acc, fid, count) ==
    IF ~fid.ok THEN fid
    ELSE IF fid.val.v # 0
    THEN counts_of(items, seed,
                   [k \in DOMAIN acc \cup {fid.val.v} |->
                       IF k = fid.val.v THEN count.val ELSE acc[k]])
    ELSE counts_of(items, seed, acc)

\* get_unread_counts()
get_unread_counts(tok, closed, reply, seed) ==
    LET r == Request(tok, closed, reply,
                     [method |-> "GET", url |-> ApiUrl \o "/reader/api/0/unread-count",
                      headers |-> <<>>, params |-> [output |-> "json"]])
        items == Entries(reply.body, "unreadcounts")
    IN IF ~r.out.ok THEN r
       ELSE IF ~items.ok THEN [r EXCEPT !.out = items]
       ELSE [r EXCEPT !.out = counts_of(items.val, seed, [k \in {} |-> PyNone])]

\* if article: articles.append(article)
appended(article) == IF article.t # "None" THEN <<article>> ELSE <<>>

\* the loop of get_articles leaving at the first item parsed to None
RECURSIVE articles_of_abort(_, _)
articles_of_abort(items, seed) ==
    IF Len(items) = 0 THEN <<>>
    ELSE IF parse_article(Head(items), seed).t = "None" THEN <<>>
    ELSE <<parse_article(Head(items), seed)>> \o articles_of_abort(Tail(items), seed)

\* the loop of get_articles: the parsed items, in source order, without the ones parsed to None
RECURSIVE articles_of(_, _)
articles_of(items, seed) ==
    IF Len(items) = 0 THEN <<>>
    ELSE appended(parse_article(Head(items), seed)) \o articles_of(Tail(items), seed)

\* the stream a get_articles call reads
stream_id(feed_id) == IF Truthy(feed_id) THEN "feed/" \o ToString(feed_id.v) ELSE "user/-/state/com.google/reading-list"

\* the query parameters of a get_articles call
stream_params(limit, include_read, since_timestamp) ==
    (IF Truthy(since_timestamp) THEN [ot |-> since_timestamp.v] ELSE <<>>)
    @@ (IF ~include_read THEN [xt |-> ReadTag] ELSE <<>>)
    @@ [output |-> "json", n |-> limit]

\* get_articles(feed_id, limit, include_read, since_timestamp)
get_articles(tok, closed, reply, seed, feed_id, limit, include_read, since_timestamp) ==
    LET r == Request(tok, closed, reply,
                     [method |-> "GET",
                      url |-> ApiUrl \o "/reader/api/0/stream/contents/" \o stream_id(feed_id),
                      headers |-> <<>>,
                      params |-> stream_params(limit, include_read, since_timestamp)])
        items == Entries(reply.body, "items")
    IN IF ~r.out.ok THEN r
       ELSE IF ~items.ok THEN [r EXCEPT !.out = items]
       ELSE [r EXCEPT !.out = Ok(articles_of(items.val, seed))]

ItemPrefix == "tag:google.com,2005:reader/item/"

\* _edit_tags(article_ids, add_tags, remove_tags): tags are a sequence of names, or None
edit_tags(tok, closed, reply, article_ids, add_tags, remove_tags) ==
    LET data == (IF Truthy(remove_tags) THEN [r |-> remove_tags.v] ELSE <<>>)
                @@ (IF Truthy(add_tags) THEN [a |-> add_tags.v] ELSE <<>>)
                @@ [i |-> [k \in 1..Len(article_ids) |-> ItemPrefix \o ToString(article_ids[k])]]
        r == Request(tok, closed, reply,
                     [method |-> "POST", url |-> ApiUrl \o "/reader/api/0/edit-tag",
                      headers |-> <<>>, data |-> data])
    IN IF ~r.out.ok THEN r ELSE [r EXCEPT !.out = Ok(PyBool(TRUE))]

mark_as_read(tok, closed, reply, article_ids) ==
    edit_tags(tok, closed, reply, article_ids, PyList(<<ReadTag>>), PyNone)

\* mark_as_unread passing the read tag as add_tags
mark_as_unread_adds(tok, closed, reply, article_ids) ==
    edit_tags(tok, closed, reply, article_ids, PyList(<<ReadTag>>), PyNone)

mark_as_unread(tok, closed, reply, article_ids) ==
    edit_tags(tok, closed, reply, article_ids, PyNone, PyList(<<ReadTag>>))

star_article(tok, closed, reply, article_id) ==
    edit_tags(tok, closed, reply, <<article_id>>, PyList(<<StarredTag>>), PyNone)

unstar_article(tok, closed, reply, article_id) ==
    edit_tags(tok, closed, reply, <<article_id>>, PyNone, PyList(<<StarredTag>>))

-----------------------------------------------------------------------------
(* What the upstream service can answer.                                   *)

NotJson == [t |-> "invalid"]

\* answers whose body the caller never reads: a failed send, a non-2xx status
FailedReplies ==
    NetFailures \cup [t : {"resp"}, status : {401, 403, 500}, body : {NotJson}]

ItemA ==
    PyDict([id |-> PyStr(ItemPrefix \o "12"), title |-> PyStr("Alpha News"),
            published |-> PyInt(20), alternate |-> PyList(<<PyDict([href |-> PyStr("http://a/1")])>>),
            summary |-> PyDict([content |-> PyStr("alpha body text")]),
            origin |-> PyDict([title |-> PyStr("Feed A")]),
            categories |-> PyList(<<PyStr(ReadTag)>>)])

ItemB ==
    PyDict([id |-> PyStr(ItemPrefix \o "0a"), title |-> PyStr("beta"),
            published |-> PyInt(30), summary |-> PyDict([content |-> PyStr("the Alpha again")]),
            categories |-> PyList(<<PyStr(StarredTag)>>)])

\* an item whose origin is null: the parser's try block raises on it
ItemBadOrigin == PyDict([id |-> PyStr(ItemPrefix \o "13"), title |-> PyStr("gamma"), origin |-> PyNone])

\* an item whose title and published are null
ItemNulls == PyDict([id |-> PyStr("urn:x"), title |-> PyNone, published |-> PyNone])

ItemPalette == {ItemA, ItemB, ItemBadOrigin, ItemNulls}

StreamBodies ==
    {PyDict([items |-> PyList(q)]) : q \in SeqsUpTo(ItemPalette, MaxItems)}
    \cup {NotJson, EmptyDict, PyList(<<>>), PyDict([items |-> PyNone])}

StreamReplies == FailedReplies \cup [t : {"resp"}, status : {200}, body : StreamBodies]

Sub123 == PyDict([id |-> PyStr("feed/123"), title |-> PyStr("A"), url |-> PyStr("u1")])

Sub456 == PyDict([id |-> PyStr("feed/456"), title |-> PyStr("B"), url |-> PyStr("u2")])

SubUrl == PyDict([id |-> PyStr("feed/http://c/rss")])

SubBadId == PyDict([id |-> PyInt(7), title |-> PyStr("D")])

SubscriptionBodies ==
    {PyDict([subscriptions |-> PyList(q)]) :
        q \in {<<>>, <<Sub123>>, <<Sub123, Sub456>>, <<Sub456, Sub123>>, <<SubUrl>>,
               <<Sub123, Sub123>>, <<Sub123, SubBadId>>}}
    \cup {NotJson, EmptyDict, PyList(<<>>)}

SubscriptionReplies == FailedReplies \cup [t : {"resp"}, status : {200}, body : SubscriptionBodies]

Count(id, n) == PyDict([id |-> PyStr(id), count |-> PyInt(n)])

UnreadBodies ==
    {PyDict([unreadcounts |-> PyList(q)]) :
        q \in {<<>>, <<Count("feed/123", 5)>>, <<Count("feed/123", 5), Count("feed/456", 3)>>,
               <<Count("feed/0", 4), Count("", 9)>>, <<Count("feed/123", 5), Count("123", 6)>>,
               <<PyDict([id |-> PyStr("feed/456")])>>, <<PyNone>>}}
    \cup {NotJson, EmptyDict}

UnreadReplies == FailedReplies \cup [t : {"resp"}, status : {200}, body : UnreadBodies]

\* the final answers to an edit-tag POST; 302 is a redirect the transport could not follow
EditReplies == FailedReplies \cup [t : {"resp"}, status : {200, 204, 302}, body : {NotJson}]

FeedIdArgs == {PyNone, PyInt(0), PyInt(42)}

SinceArgs == {PyNone, PyInt(1700)}

ArticleIdLists == {<<>>, <<100>>, <<100, 200>>}

\* aclose() without its is_closed guard
aclose_unguarded(closed) == [closed |-> TRUE, released |-> TRUE]

\* aclose(): the transport is released unless it is closed already
aclose(closed) == [closed |-> TRUE, released |-> ~closed]

-----------------------------------------------------------------------------
(* The tool layer (tools.py): Python text of values.                       *)

\* the printable ASCII characters in code order, from the space (32) on; the place of the
\* grave accent (96), which a string of this language cannot hold, is taken by a tab
Ascii ==
    " !\"#$%&'()*+,-./0123456789:;<=>?@ABCDEFGHIJKLMNOPQRSTUVWXYZ[\\]^_\tabcdefghijklmnopqrstuvwxyz{|}~"

\* ord(c)
CharCode(c) ==
    CASE c = "\t" -> 9
      [] c = "\n" -> 10
      [] c = "\r" -> 13
      [] OTHER -> LET i == FindChar(Ascii, c, 1) IN IF i = 0 THEN 127 ELSE 31 + i

\* c.lower() of one character
LowerChar(c) ==
    LET k == CharCode(c) IN IF k >= 65 /\ k <= 90 THEN SubSeq(Ascii, k + 1, k + 1) ELSE c

\* str.lower(): character by character, the halves of s one after the other
RECURSIVE Lower(_)
Lower(s) ==
    IF Len(s) = 0 THEN ""
    ELSE IF Len(s) = 1 THEN LowerChar(s)
    ELSE Lower(SubSeq(s, 1, Len(s) \div 2)) \o Lower(SubSeq(s, Len(s) \div 2 + 1, Len(s)))

\* one character of the body of repr(s): backslash, the quote in use and control characters escaped
EscapeChar(c, quote) ==
    CASE c = "\\" -> "\\\\"
      [] c = "\n" -> "\\n"
      [] c = "\t" -> "\\t"
      [] c = "\r" -> "\\r"
      [] c = quote -> "\\" \o quote
      [] OTHER -> c

\* the body of repr(s): every character escaped, the halves of s one after the other
RECURSIVE Escape(_, _)
Escape(s, quote) ==
    IF Len(s) = 0 THEN ""
    ELSE IF Len(s) = 1 THEN EscapeChar(s, quote)
    ELSE Escape(SubSeq(s, 1, Len(s) \div 2), quote)
         \o Escape(SubSeq(s, Len(s) \div 2 + 1, Len(s)), quote)

\* repr(s) of a str: single quotes, unless s has a single quote and no double quote
ReprStr(s) ==
    LET quote == IF Contains(s, "'") /\ ~Contains(s, "\"") THEN "\"" ELSE "'"
    IN quote \o Escape(s, quote) \o quote

\* ", ".join(parts)
RECURSIVE JoinComma(_)
JoinComma(parts) ==
    IF Len(parts) = 0 THEN ""
    ELSE IF Len(parts) = 1 THEN parts[1]
    ELSE parts[1] \o ", " \o JoinComma(Tail(parts))

\* repr(v); the keys of a decoded JSON object come in one fixed order
RECURSIVE PyRepr(_)
PyRepr(v) ==
    CASE v.t = "None" -> "None"
      [] v.t = "str" -> ReprStr(v.v)
      [] v.t = "int" -> ToString(v.v)
      [] v.t = "bool" -> IF v.v THEN "True" ELSE "False"
      [] v.t = "list" -> "[" \o JoinComma([i \in 1..Len(v.v) |-> PyRepr(v.v[i])]) \o "]"
      [] v.t = "dict" ->
           LET keys == SetToSeq(DOMAIN v.v) IN
           "{" \o JoinComma([i \in 1..Len(keys) |->
                                ReprStr(keys[i]) \o ": " \o PyRepr(v.v[keys[i]])]) \o "}"

\* repr of a dict built by to_dict(): d is the sequence of its <<key, value>> in insertion order
ReprDict(d) ==
    "{" \o JoinComma([i \in 1..Len(d) |-> ReprStr(d[i][1]) \o ": " \o PyRepr(d[i][2])]) \o "}"

\* str(result) of a list of such dicts
ReprDicts(ds) == "[" \o JoinComma([i \in 1..Len(ds) |-> ReprDict(ds[i])]) \o "]"

\* Article.to_dict()
article_to_dict(a) ==
    << <<"id", PyInt(a.id)>>, <<"title", a.title>>, <<"summary", a.summary>>,
       <<"url", a.url>>, <<"published", a.published>>, <<"feed_name", a.feed_name>>,
       <<"is_read", PyBool(a.is_read)>>, <<"is_starred", PyBool(a.is_starred)>> >>

\* Feed.to_dict()
feed_to_dict(f) ==
    << <<"id", PyInt(f.id)>>, <<"name", f.name>>, <<"url", f.url>>,
       <<"unread_count", f.unread_count>> >>

\* type(v).__name__
TypeName(v) == IF v.t = "None" THEN "NoneType" ELSE v.t

\* s.rsplit(" ", 1)[0]: what stands before the last space, all of s when it has none
RECURSIVE RSplitHead(_, _)
RSplitHead(s, i) ==
    IF i = 0 THEN s
    ELSE IF SubSeq(s, i, i) = " " THEN SubSeq(s, 1, i - 1)
    ELSE RSplitHead(s, i - 1)

\* _truncate_summary cutting at max_length without backing up to a space
truncate_summary_hard(summary, max_length) ==
    IF Len(summary.v) <= max_length THEN Ok(summary)
    ELSE Ok(PyStr(SliceTo(summary.v, max_length) \o "..."))

\* _truncate_summary(summary, max_length)
truncate_summary(summary, max_length) ==
    CASE summary.t = "str" ->
           IF Len(summary.v) <= max_length THEN Ok(summary)
           ELSE LET cut == SliceTo(summary.v, max_length) IN
                Ok(PyStr(RSplitHead(cut, Len(cut)) \o "..."))
      [] summary.t = "list" ->
           IF Len(summary.v) <= max_length THEN Ok(summary)
           ELSE Raise(Exc("AttributeError", "'list' object has no attribute 'rsplit'"))
      [] summary.t = "dict" ->
           IF Cardinality(DOMAIN summary.v) <= max_length THEN Ok(summary)
           ELSE Raise(Exc("TypeError", "unhashable type: 'slice'"))
      [] OTHER ->
           Raise(Exc("TypeError", "object of type '" \o TypeName(summary) \o "' has no len()"))

-----------------------------------------------------------------------------
(* The tool layer (tools.py): the tools.                                   *)

\* s1 < s2 of two str
RECURSIVE StrLess(_, _)
StrLess(s1, s2) ==
    IF s2 = "" THEN FALSE
    ELSE IF s1 = "" THEN TRUE
    ELSE IF Head(s1) = Head(s2) THEN StrLess(Tail(s1), Tail(s2))
    ELSE CharCode(Head(s1)) < CharCode(Head(s2))

\* the number a bool or an int compares as
NumVal(v) == IF v.t = "bool" THEN (IF v.v THEN 1 ELSE 0) ELSE v.v

\* a < b: numbers with numbers, str with str, lists by their first differing element;
\* anything else raises TypeError
RECURSIVE PyLess(_, _)
PyLess(a, b) ==
    CASE a.t \in {"int", "bool"} /\ b.t \in {"int", "bool"} -> Ok(NumVal(a) < NumVal(b))
      [] a.t = "str" /\ b.t = "str" -> Ok(StrLess(a.v, b.v))
      [] a.t = "list" /\ b.t = "list" ->
           IF Len(b.v) = 0 THEN Ok(FALSE)
           ELSE IF Len(a.v) = 0 THEN Ok(TRUE)
           ELSE IF Head(a.v) = Head(b.v) THEN PyLess(PyList(Tail(a.v)), PyList(Tail(b.v)))
           ELSE PyLess(Head(a.v), Head(b.v))
      [] OTHER ->
           Raise(Exc("TypeError", "'<' not supported between instances of '"
                                  \o TypeName(a) \o "' and '" \o TypeName(b) \o "'"))

\* x in front of what a loop made of the rest, unless that raised
cons(x, rest) == IF ~rest.ok THEN rest ELSE Ok(<<x>> \o rest.val)

\* x before the articles sorted so far when the first of them is below it (lt), else after it
RECURSIVE InsertByPublished(_, _)
RECURSIVE inserted(_, _, _)
inserted(sorted, x, lt) ==
    IF ~lt.ok THEN lt
    ELSE IF lt.val THEN Ok(<<x>> \o sorted)
    ELSE cons(Head(sorted), InsertByPublished(Tail(sorted), x))

\* x put into the articles sorted so far, after every one that is not below it
InsertByPublished(sorted, x) ==
    IF Len(sorted) = 0 THEN Ok(<<x>>)
    ELSE inserted(sorted, x, PyLess(Head(sorted).published, x.published))

\* all_articles.sort(key=lambda a: a.published, reverse=True): stable, newest first;
\* raises TypeError when two keys do not compare (which two meet first is the interpreter's)
RECURSIVE SortByPublished(_, _)
RECURSIVE sort_on(_, _)
sort_on(next, articles) == IF ~next.ok THEN next ELSE SortByPublished(next.val, articles)

SortByPublished(sorted, articles) ==
    IF Len(articles) = 0 THEN Ok(sorted)
    ELSE sort_on(InsertByPublished(sorted, Head(articles)), Tail(articles))

\* q[:n]
SeqTo(q, n) ==
    LET k == IF n >= 0 THEN (IF n < Len(q) THEN n ELSE Len(q))
             ELSE (IF Len(q) + n > 0 THEN Len(q) + n ELSE 0)
    IN SubSeq(q, 1, k)

\* one awaited Feed Client call of a tool: what it was, what it returned, what it sent
CallRec(op, args, reply, r) ==
    [op |-> op, args |-> args, reply |-> reply, out |-> r.out, reqs |-> r.reqs, net |-> r.net]

\* the arguments of a client.get_articles call as the call record keeps them
ArticlesArgs(feed_id, limit, include_read, since) ==
    [feed_id |-> feed_id, limit |-> limit, include_read |-> include_read,
     since_timestamp |-> since]

\* a loop that goes on to the next feed after a fetch raised
extended_goes_on(call, rest) ==
    IF ~call.out.ok THEN [out |-> call.out, calls |-> <<call>> \o rest.calls]
    ELSE [out |-> IF rest.out.ok THEN Ok(call.out.val \o rest.out.val) ELSE rest.out,
          calls |-> <<call>> \o rest.calls]

\* all_articles.extend(articles) and the turns of the loop that follow, unless the call raised
extended(call, rest) ==
    IF ~call.out.ok THEN [out |-> call.out, calls |-> <<call>>]
    ELSE [out |-> IF rest.out.ok THEN Ok(call.out.val \o rest.out.val) ELSE rest.out,
          calls |-> <<call>> \o rest.calls]

\* for fid in feed_ids: articles = await client.get_articles(feed_id=fid, ...); extend
RECURSIVE fetch_each(_, _, _, _, _, _, _, _)
fetch_each(tok, closed, replies, seed, fids, limit, include_read, since) ==
    IF Len(fids) = 0 THEN [out |-> Ok(<<>>), calls |-> <<>>]
    ELSE extended(CallRec("get_articles",
                          ArticlesArgs(Head(fids), limit, include_read, since), Head(replies),
                          get_articles(tok, closed, Head(replies), seed, Head(fids),
                                       limit, include_read, since)),
                  fetch_each(tok, closed, Tail(replies), seed, Tail(fids),
                             limit, include_read, since))

\* the fetch of get_unread_articles and search_articles: per feed id, or the reading list
fetch(tok, closed, replies, seed, feed_ids, limit, include_read, since) ==
    fetch_each(tok, closed, replies, seed,
               IF Truthy(feed_ids) THEN feed_ids.v ELSE <<PyNone>>, limit, include_read, since)

\* a tool boundary that lets everything but an AuthenticationError through
tool_boundary_authonly(body) ==
    IF body.out.ok \/ body.out.err.cls # "AuthenticationError" THEN body
    ELSE [body EXCEPT !.out = Ok(PyStr("Error: " \o body.out.err.msg))]

\* try: ... except Exception as e: return f"Error: {e}"
tool_boundary(body) ==
    IF body.out.ok THEN body
    ELSE [body EXCEPT !.out = Ok(PyStr("Error: " \o body.out.err.msg))]

\* sorted[:limit], unless the sort raised
first_of(sorted, limit) == IF ~sorted.ok THEN sorted ELSE Ok(SeqTo(sorted.val, limit))

\* d = article.to_dict(); d["summary"] = the truncated summary (cut)
with_summary(d, cut) == IF ~cut.ok THEN cut ELSE Ok([d EXCEPT ![3] = <<"summary", cut.val>>])

\* d in front of what the loop made of the rest, unless making d raised
cons_dict(d, rest) == IF ~d.ok THEN d ELSE cons(d.val, rest)

\* the loop of get_unread_articles: to_dict() with the summary truncated
RECURSIVE truncated_dicts(_, _)
truncated_dicts(articles, max_summary_length) ==
    IF Len(articles) = 0 THEN Ok(<<>>)
    ELSE cons_dict(with_summary(article_to_dict(Head(articles)),
                                truncate_summary(Head(articles).summary, max_summary_length)),
                   truncated_dicts(Tail(articles), max_summary_length))

\* get_unread_articles cutting to limit without sorting what it fetched
newest_unsorted(fetched, feed_ids, limit) ==
    IF ~fetched.ok \/ ~Truthy(feed_ids) THEN fetched ELSE first_of(fetched, limit)

\* all_articles.sort(...); articles = all_articles[:limit], when feed ids were given
newest(fetched, feed_ids, limit) ==
    IF ~fetched.ok \/ ~Truthy(feed_ids) THEN fetched
    ELSE first_of(SortByPublished(<<>>, fetched.val), limit)

\* str(result) of the dicts made, or what making them raised
listing(dicts) == IF dicts.ok THEN Ok(PyStr(ReprDicts(dicts.val))) ELSE dicts

\* the dicts of get_unread_articles for the articles it holds
unread_dicts(articles, max_summary_length) ==
    IF articles.ok THEN truncated_dicts(articles.val, max_summary_length) ELSE articles

\* the try block of get_unread_articles once its fetch is back
unread_articles_of(got, feed_ids, limit, max_summary_length) ==
    [out |-> listing(unread_dicts(newest(got.out, feed_ids, limit), max_summary_length)),
     calls |-> got.calls]

\* the tool get_unread_articles(limit, feed_ids, since_timestamp, max_summary_length)
tool_get_unread_articles(tok, closed, replies, seed, limit, feed_ids, since, max_summary_length) ==
    tool_boundary(unread_articles_of(fetch(tok, closed, replies, seed, feed_ids, limit, FALSE, since),
                                     feed_ids, limit, max_summary_length))

\* [a.to_dict() for a in articles]
dicts_of(articles) ==
    IF articles.ok THEN Ok([i \in 1..Len(articles.val) |-> article_to_dict(articles.val[i])])
    ELSE articles

\* the try block of get_articles_by_feed once its fetch is back
articles_by_feed_of(got) == [out |-> listing(dicts_of(got.out)), calls |-> got.calls]

\* the tool get_articles_by_feed(feed_id, limit, include_read)
tool_get_articles_by_feed(tok, closed, replies, seed, feed_id, limit, include_read) ==
    tool_boundary(articles_by_feed_of(
        fetch_each(tok, closed, replies, seed, <<feed_id>>, limit, include_read, PyNone)))

\* query_lower in v.lower(), for the title or the summary v of an article
lower_has(v, query_lower) ==
    IF v.t = "str" THEN Ok(Contains(Lower(v.v), query_lower))
    ELSE Raise(Exc("AttributeError",
                   "'" \o TypeName(v) \o "' object has no attribute 'lower'"))

\* query_lower in a.title.lower() or query_lower in a.summary.lower()
matches(in_title, summary, query_lower) ==
    IF in_title.ok /\ ~in_title.val THEN lower_has(summary, query_lower) ELSE in_title

\* a kept when it matches (hit), in front of what the filter makes of the rest
kept(a, hit, rest) ==
    IF ~hit.ok THEN hit
    ELSE IF hit.val THEN cons(a, rest)
    ELSE rest

\* the filter of search_articles: the articles whose title or summary holds the query
RECURSIVE matching_of(_, _)
matching_of(articles, query_lower) ==
    IF Len(articles) = 0 THEN Ok(<<>>)
    ELSE kept(Head(articles),
              matches(lower_has(Head(articles).title, query_lower),
                      Head(articles).summary, query_lower),
              matching_of(Tail(articles), query_lower))

\* matching = [...] over what was fetched
matching(fetched, query_lower) ==
    IF fetched.ok THEN matching_of(fetched.val, query_lower) ELSE fetched

\* search_articles cutting what it fetched down to limit before it filters
search_of_cut_first(got, query, limit) ==
    [out |-> listing(dicts_of(matching(first_of(got.out, limit), Lower(query)))),
     calls |-> got.calls]

\* the try block of search_articles once its fetch is back
search_of(got, query, limit) ==
    [out |-> listing(dicts_of(first_of(matching(got.out, Lower(query)), limit))),
     calls |-> got.calls]

\* the tool search_articles(query, limit, feed_ids)
tool_search_articles(tok, closed, replies, seed, query, limit, feed_ids) ==
    tool_boundary(search_of(fetch(tok, closed, replies, seed, feed_ids, limit * 3, TRUE, PyNone),
                            query, limit))

\* unread_counts = await client.get_unread_counts(), once the feeds are back
with_counts(fcall, ccall) ==
    IF ~fcall.out.ok THEN [out |-> fcall.out, calls |-> <<fcall>>]
    ELSE IF ~ccall.out.ok THEN [out |-> ccall.out, calls |-> <<fcall, ccall>>]
    ELSE [out |-> Ok([feeds |-> fcall.out.val, unread_counts |-> ccall.out.val]),
          calls |-> <<fcall, ccall>>]

\* feeds = await client.list_feeds(); unread_counts = await client.get_unread_counts()
feeds_and_counts(tok, closed, replies, seed) ==
    with_counts(CallRec("list_feeds", <<>>, replies[1],
                        list_feeds(tok, closed, replies[1], seed)),
                CallRec("get_unread_counts", <<>>, replies[2],
                        get_unread_counts(tok, closed, replies[2], seed)))

\* the default 0 whatever the lookup holds
unread_of_default(unread_counts, feed_id) == PyInt(0)

\* unread_counts.get(feed_id, 0)
unread_of(unread_counts, feed_id) ==
    IF feed_id \in DOMAIN unread_counts THEN unread_counts[feed_id] ELSE PyInt(0)

\* feed.unread_count = unread_counts.get(feed.id, 0); feed.to_dict()
merged_dict(feed, counts) ==
    feed_to_dict([feed EXCEPT !.unread_count = unread_of(counts, feed.id)])

\* str([f.to_dict() for f in feeds]) with the counts merged in
feeds_listing(feeds, counts) ==
    ReprDicts([i \in 1..Len(feeds) |-> merged_dict(feeds[i], counts)])

\* the try block of list_feeds once both calls are back
list_feeds_of(got) ==
    IF ~got.out.ok THEN got
    ELSE [got EXCEPT !.out =
             Ok(PyStr(feeds_listing(got.out.val.feeds, got.out.val.unread_counts)))]

\* the tool list_feeds()
tool_list_feeds(tok, closed, replies, seed) ==
    tool_boundary(list_feeds_of(feeds_and_counts(tok, closed, replies, seed)))

\* get_feed_info answering with the last feed that has the id
feed_info_of_last(feeds, counts, feed_id) ==
    LET hits == {i \in 1..Len(feeds) : feeds[i].id = feed_id} IN
    IF hits = {} THEN "Error: Feed " \o ToString(feed_id) \o " not found"
    ELSE ReprDict(merged_dict(feeds[CHOOSE i \in hits : \A j \in hits : j <= i], counts))

\* the loop of get_feed_info: the first feed with the id, or the not-found text
RECURSIVE feed_info_of(_, _, _)
feed_info_of(feeds, counts, feed_id) ==
    IF Len(feeds) = 0 THEN "Error: Feed " \o ToString(feed_id) \o " not found"
    ELSE IF Head(feeds).id = feed_id THEN ReprDict(merged_dict(Head(feeds), counts))
    ELSE feed_info_of(Tail(feeds), counts, feed_id)

\* the try block of get_feed_info once both calls are back
get_feed_info_of(got, feed_id) ==
    IF ~got.out.ok THEN got
    ELSE [got EXCEPT !.out =
             Ok(PyStr(feed_info_of(got.out.val.feeds, got.out.val.unread_counts, feed_id)))]

\* the tool get_feed_info(feed_id)
tool_get_feed_info(tok, closed, replies, seed, feed_id) ==
    tool_boundary(get_feed_info_of(feeds_and_counts(tok, closed, replies, seed), feed_id))

\* the result list of get_feed_stats
stats_listing(feeds, counts) ==
    ReprDicts([i \in 1..Len(feeds) |->
                  << <<"feed_id", PyInt(feeds[i].id)>>,
                     <<"feed_name", feeds[i].name>>,
                     <<"unread_count", unread_of(counts, feeds[i].id)>> >>])

\* the try block of get_feed_stats once both calls are back
get_feed_stats_of(got) ==
    IF ~got.out.ok THEN got
    ELSE [got EXCEPT !.out =
             Ok(PyStr(stats_listing(got.out.val.feeds, got.out.val.unread_counts)))]

\* the tool get_feed_stats()
tool_get_feed_stats(tok, closed, replies, seed) ==
    tool_boundary(get_feed_stats_of(feeds_and_counts(tok, closed, replies, seed)))

\* what an edit tool returns once its client call r is back
edited(op, article_ids, reply, r) ==
    [out |-> IF r.out.ok THEN Ok(PyStr("OK")) ELSE r.out,
     calls |-> <<CallRec(op, article_ids, reply, r)>>]

\* mark_as_read without its test for an empty list
tool_mark_as_read_always(tok, closed, replies, article_ids) ==
    tool_boundary(edited("mark_as_read", article_ids, replies[1],
                         mark_as_read(tok, closed, replies[1], article_ids)))

\* the tool mark_as_read(article_ids)
tool_mark_as_read(tok, closed, replies, article_ids) ==
    tool_boundary(
        IF Len(article_ids) = 0 THEN [out |-> Ok(PyStr("OK")), calls |-> <<>>]
        ELSE edited("mark_as_read", article_ids, replies[1],
                    mark_as_read(tok, closed, replies[1], article_ids)))

\* the tool mark_as_unread(article_ids)
tool_mark_as_unread(tok, closed, replies, article_ids) ==
    tool_boundary(
        IF Len(article_ids) = 0 THEN [out |-> Ok(PyStr("OK")), calls |-> <<>>]
        ELSE edited("mark_as_unread", article_ids, replies[1],
                    mark_as_unread(tok, closed, replies[1], article_ids)))

\* the tool star_article(article_id)
tool_star_article(tok, closed, replies, article_id) ==
    tool_boundary(edited("star_article", <<article_id>>, replies[1],
                         star_article(tok, closed, replies[1], article_id)))

\* the tool unstar_article(article_id)
tool_unstar_article(tok, closed, replies, article_id) ==
    tool_boundary(edited("unstar_article", <<article_id>>, replies[1],
                         unstar_article(tok, closed, replies[1], article_id)))

-----------------------------------------------------------------------------
(* Actions of the client state machine.                                    *)

NoCall == [op |-> "none"]

Null == [t |-> "null"]

\* an embedding caller (or main(), were it to) calls client.authenticate()
Authenticate ==
    /\ host = "library"
    /\ last = NoCall
    /\ auth_calls < MaxAuthCalls
    /\ \E reply \in AuthReplies :
         LET r == authenticate(auth_token, is_closed, reply) IN
         /\ auth_token' = r.token
         /\ granted' = IF r.out.ok THEN r.out.val ELSE granted
         /\ last' = [op |-> "authenticate", args |-> <<>>, replies |-> <<reply>>,
                     token |-> auth_token, closed |-> is_closed,
                     out |-> r.out, reqs |-> r.reqs, net |-> r.net]
    /\ auth_calls' = auth_calls + 1
    /\ UNCHANGED <<host, pc, is_closed, releases, hashseed, arg, ret>>

\* client._get_auth_headers()
GetAuthHeaders ==
    /\ host = "library"
    /\ last = NoCall
    /\ last' = [op |-> "_get_auth_headers", args |-> <<>>, replies |-> <<>>,
                token |-> auth_token, closed |-> is_closed,
                out |-> get_auth_headers(auth_token), reqs |-> <<>>, net |-> 0]
    /\ UNCHANGED <<host, pc, auth_token, is_closed, releases, auth_calls, granted, hashseed, arg, ret>>

\* client.aclose(): release the transport unless it is already closed
AClose ==
    /\ host = "library"
    /\ last = NoCall
    /\ releases < MaxReleases
    /\ LET r == aclose(is_closed) IN
         /\ is_closed' = r.closed
         /\ releases' = IF r.released THEN releases + 1 ELSE releases
         /\ last' = [op |-> "aclose", args |-> <<>>, replies |-> <<>>,
                     token |-> auth_token, closed |-> is_closed,
                     out |-> Ok(PyNone), reqs |-> <<>>, net |-> 0, released |-> r.released]
    /\ UNCHANGED <<host, pc, auth_token, auth_calls, granted, hashseed, arg, ret>>

\* what every client call records: the state it ran in, what it returned, what it sent
Record(op, args, replies, r) ==
    [op |-> op, args |-> args, replies |-> replies, token |-> auth_token, closed |-> is_closed,
     out |-> r.out, reqs |-> r.reqs, net |-> r.net]

Frame == UNCHANGED <<host, pc, auth_token, is_closed, releases, auth_calls, granted, hashseed, arg, ret>>

\* client.list_feeds()
ListFeeds ==
    /\ host = "library"
    /\ last = NoCall
    /\ \E reply \in SubscriptionReplies :
         last' = Record("list_feeds", <<>>, <<reply>>,
                        list_feeds(auth_token, is_closed, reply, hashseed))
    /\ Frame

\* client.get_unread_counts()
GetUnreadCounts ==
    /\ host = "library"
    /\ last = NoCall
    /\ \E reply \in UnreadReplies :
         last' = Record("get_unread_counts", <<>>, <<reply>>,
                        get_unread_counts(auth_token, is_closed, reply, hashseed))
    /\ Frame

\* client.get_articles(feed_id, limit, include_read, since_timestamp)
GetArticles ==
    /\ host = "library"
    /\ last = NoCall
    /\ \E reply \in StreamReplies, feed_id \in FeedIdArgs, include_read \in BOOLEAN,
          since \in SinceArgs :
         last' = Record("get_articles",
                        [feed_id |-> feed_id, limit |-> 20, include_read |-> include_read,
                         since_timestamp |-> since],
                        <<reply>>,
                        get_articles(auth_token, is_closed, reply, hashseed,
                                     feed_id, 20, include_read, since))
    /\ Frame

\* client.mark_as_read(ids), mark_as_unread(ids), star_article(id), unstar_article(id)
EditTags ==
    /\ host = "library"
    /\ last = NoCall
    /\ \E reply \in EditReplies, ids \in ArticleIdLists :
         \/ last' = Record("mark_as_read", ids, <<reply>>,
                           mark_as_read(auth_token, is_closed, reply, ids))
         \/ last' = Record("mark_as_unread", ids, <<reply>>,
                           mark_as_unread(auth_token, is_closed, reply, ids))
         \/ /\ Len(ids) = 1
            /\ last' = Record("star_article", ids, <<reply>>,
                              star_article(auth_token, is_closed, reply, ids[1]))
         \/ /\ Len(ids) = 1
            /\ last' = Record("unstar_article", ids, <<reply>>,
                              unstar_article(auth_token, is_closed, reply, ids[1]))
    /\ Frame

\* the call returns to its caller; the next call starts after it
Return ==
    /\ last # NoCall
    /\ last' = NoCall
    /\ Frame

-----------------------------------------------------------------------------
(* Tool calls: what a caller of the registered tools can make happen.      *)

ConnectionLost == [t |-> "exc", err |-> Exc("RuntimeError", "connection lost")]

Status(c) == [t |-> "resp", status |-> c, body |-> NotJson]

Body(b) == [t |-> "resp", status |-> 200, body |-> b]

\* an item published when ItemB was
ItemC ==
    PyDict([id |-> PyStr(ItemPrefix \o "14"), title |-> PyStr("delta"),
            published |-> PyInt(30), summary |-> PyDict([content |-> PyStr("delta body")])])

ToolStreamReplies ==
    {ConnectionLost, Status(401)}
    \cup {Body(PyDict([items |-> PyList(q)])) :
             q \in {<<ItemA, ItemB>>, <<ItemB>>, <<ItemNulls>>, <<ItemBadOrigin, ItemA>>,
                    <<ItemC, ItemA>>}}

ToolSubscriptionReplies ==
    {ConnectionLost, Body(NotJson)}
    \cup {Body(PyDict([subscriptions |-> PyList(q)])) :
             q \in {<<Sub123, Sub456>>,
                    <<Sub456, Sub123, [Sub456 EXCEPT !.v.title = PyStr("B2")]>>}}

ToolUnreadReplies ==
    {Status(500)}
    \cup {Body(PyDict([unreadcounts |-> PyList(q)])) :
             q \in {<<>>, <<Count("feed/123", 5)>>, <<Count("feed/456", 3), Count("123", 6)>>}}

ToolEditReplies == {ConnectionLost, Status(401), Status(200)}

OneFeed == PyList(<<PyInt(42)>>)

TwoFeeds == PyList(<<PyInt(42), PyInt(7)>>)

\* arguments of get_unread_articles; the first are its defaults
UnreadArticlesArgs ==
    {[limit |-> 20, feed_ids |-> PyNone, since_timestamp |-> PyNone, max_summary_length |-> 500],
     [limit |-> 20, feed_ids |-> OneFeed, since_timestamp |-> PyNone, max_summary_length |-> 500],
     [limit |-> 20, feed_ids |-> TwoFeeds, since_timestamp |-> PyInt(1700), max_summary_length |-> 7],
     [limit |-> 1, feed_ids |-> TwoFeeds, since_timestamp |-> PyNone, max_summary_length |-> 500]}

\* arguments of search_articles
SearchArgs ==
    {[query |-> "ALPHA", limit |-> 1, feed_ids |-> PyNone],
     [query |-> "ALPHA", limit |-> 10, feed_ids |-> TwoFeeds],
     [query |-> "zzz", limit |-> 10, feed_ids |-> OneFeed],
     [query |-> "Again", limit |-> 1, feed_ids |-> TwoFeeds]}

ToolFeedIds == {123, 456, 9}

\* the tools answer where they are registered and reachable: on a caller's own client, or
\* behind main() once mcp.run() serves
ToolsServed == host = "library" \/ (host = "main" /\ pc = "serving")

\* what a tool call records: the session it ran on, the string it returned (or what it
\* raised), and its Feed Client calls in order
ToolRecord(op, args, r) ==
    [op |-> op, args |-> args, token |-> auth_token, closed |-> is_closed,
     out |-> r.out, calls |-> r.calls]

GetUnreadArticlesTool ==
    /\ ToolsServed
    /\ last = NoCall
    /\ \E replies \in [1..2 -> ToolStreamReplies], a \in UnreadArticlesArgs :
         last' = ToolRecord("tool.get_unread_articles", a,
                            tool_get_unread_articles(auth_token, is_closed, replies, hashseed,
                                                     a.limit, a.feed_ids, a.since_timestamp,
                                                     a.max_summary_length))
    /\ Frame

GetArticlesByFeedTool ==
    /\ ToolsServed
    /\ last = NoCall
    /\ \E replies \in [1..1 -> ToolStreamReplies], feed_id \in FeedIdArgs \ {PyNone},
          include_read \in BOOLEAN :
         last' = ToolRecord("tool.get_articles_by_feed",
                            [feed_id |-> feed_id, limit |-> 20, include_read |-> include_read],
                            tool_get_articles_by_feed(auth_token, is_closed, replies, hashseed,
                                                      feed_id, 20, include_read))
    /\ Frame

SearchArticlesTool ==
    /\ ToolsServed
    /\ last = NoCall
    /\ \E replies \in [1..2 -> ToolStreamReplies], a \in SearchArgs :
         last' = ToolRecord("tool.search_articles", a,
                            tool_search_articles(auth_token, is_closed, replies, hashseed,
                                                 a.query, a.limit, a.feed_ids))
    /\ Frame

ListFeedsTool ==
    /\ ToolsServed
    /\ last = NoCall
    /\ \E replies \in {<<s, u>> : s \in ToolSubscriptionReplies, u \in ToolUnreadReplies} :
         last' = ToolRecord("tool.list_feeds", <<>>,
                            tool_list_feeds(auth_token, is_closed, replies, hashseed))
    /\ Frame

GetFeedInfoTool ==
    /\ ToolsServed
    /\ last = NoCall
    /\ \E replies \in {<<s, u>> : s \in ToolSubscriptionReplies, u \in ToolUnreadReplies},
          feed_id \in ToolFeedIds :
         last' = ToolRecord("tool.get_feed_info", [feed_id |-> feed_id],
                            tool_get_feed_info(auth_token, is_closed, replies, hashseed, feed_id))
    /\ Frame

GetFeedStatsTool ==
    /\ ToolsServed
    /\ last = NoCall
    /\ \E replies \in {<<s, u>> : s \in ToolSubscriptionReplies, u \in ToolUnreadReplies} :
         last' = ToolRecord("tool.get_feed_stats", <<>>,
                            tool_get_feed_stats(auth_token, is_closed, replies, hashseed))
    /\ Frame

MarkAsReadTool ==
    /\ ToolsServed
    /\ last = NoCall
    /\ \E replies \in [1..1 -> ToolEditReplies], ids \in ArticleIdLists :
         last' = ToolRecord("tool.mark_as_read", ids,
                            tool_mark_as_read(auth_token, is_closed, replies, ids))
    /\ Frame

MarkAsUnreadTool ==
    /\ ToolsServed
    /\ last = NoCall
    /\ \E replies \in [1..1 -> ToolEditReplies], ids \in ArticleIdLists :
         last' = ToolRecord("tool.mark_as_unread", ids,
                            tool_mark_as_unread(auth_token, is_closed, replies, ids))
    /\ Frame

StarArticleTool ==
    /\ ToolsServed
    /\ last = NoCall
    /\ \E replies \in [1..1 -> ToolEditReplies], id \in {100, 200} :
         last' = ToolRecord("tool.star_article", <<id>>,
                            tool_star_article(auth_token, is_closed, replies, id))
    /\ Frame

UnstarArticleTool ==
    /\ ToolsServed
    /\ last = NoCall
    /\ \E replies \in [1..1 -> ToolEditReplies], id \in {100, 200} :
         last' = ToolRecord("tool.unstar_article", <<id>>,
                            tool_unstar_article(auth_token, is_closed, replies, id))
    /\ Frame

-----------------------------------------------------------------------------
(* main() of server.py, step by step.                                      *)

\* config = load_config(); client = FreshRSSClient(config)
CreateClient ==
    /\ host = "main"
    /\ pc = "start"
    /\ pc' = "created"
    /\ auth_token' = PyNone
    /\ is_closed' = FALSE
    /\ UNCHANGED <<host, releases, auth_calls, granted, hashseed, last, arg, ret>>

\* mcp = FastMCP("freshrss-mcp"); register_tools(mcp, client)
RegisterTools ==
    /\ host = "main"
    /\ pc = "created"
    /\ pc' = "registered"
    /\ UNCHANGED <<host, auth_token, is_closed, releases, auth_calls, granted, hashseed, last, arg, ret>>

\* signal.signal(SIGTERM, handle_shutdown); signal.signal(SIGINT, handle_shutdown)
InstallHandlers ==
    /\ host = "main"
    /\ pc = "registered"
    /\ pc' = "armed"
    /\ UNCHANGED <<host, auth_token, is_closed, releases, auth_calls, granted, hashseed, last, arg, ret>>

\* mcp.run(...): the event loop starts and the tools are served
Run ==
    /\ host = "main"
    /\ pc = "armed"
    /\ pc' = "serving"
    /\ UNCHANGED <<host, auth_token, is_closed, releases, auth_calls, granted, hashseed, last, arg, ret>>

\* SIGTERM or SIGINT once the handlers are installed. Before the event loop runs,
\* handle_shutdown closes the client and exits with status 0. While it runs, either the
\* handler is entered and asyncio.run() raises RuntimeError inside the running loop (nothing
\* closed, no sys.exit(0)), or the serving framework has put its own handlers in place and
\* stops the server without entering handle_shutdown.
Shutdown ==
    /\ host = "main"
    /\ last = NoCall
    /\ \/ /\ pc = "armed"
          /\ LET r == aclose(is_closed) IN
               /\ is_closed' = r.closed
               /\ releases' = IF r.released THEN releases + 1 ELSE releases
          /\ pc' = "exited"
       \/ /\ pc = "serving"
          /\ pc' \in {"crashed", "stopped"}
          /\ UNCHANGED <<is_closed, releases>>
    /\ UNCHANGED <<host, auth_token, auth_calls, granted, hashseed, last, arg, ret>>

InitClient ==
    /\ auth_token = PyNone
    /\ is_closed = FALSE
    /\ releases = 0
    /\ auth_calls = 0
    /\ granted = PyNone
    /\ last = NoCall

Init ==
    /\ host \in {"main", "library"}
    /\ pc = IF host = "main" THEN "start" ELSE "library"
    /\ InitClient
    /\ hashseed \in 0..MaxSeed
    /\ arg = [fn |-> "none"]
    /\ ret = Null

Next ==
    \/ Authenticate
    \/ GetAuthHeaders
    \/ AClose
    \/ ListFeeds
    \/ GetUnreadCounts
    \/ GetArticles
    \/ EditTags
    \/ GetUnreadArticlesTool
    \/ GetArticlesByFeedTool
    \/ SearchArticlesTool
    \/ ListFeedsTool
    \/ GetFeedInfoTool
    \/ GetFeedStatsTool
    \/ MarkAsReadTool
    \/ MarkAsUnreadTool
    \/ StarArticleTool
    \/ UnstarArticleTool
    \/ CreateClient
    \/ RegisterTools
    \/ InstallHandlers
    \/ Run
    \/ Shutdown
    \/ Return

Spec == Init /\ [][Next]_vars

-----------------------------------------------------------------------------
(* The article parser on its own: one raw record in, one result out.       *)

Absent == [t |-> "absent"]

IdOpts == {Absent, PyStr(ItemPrefix \o "12"), PyStr("abc"), PyNone}

TitleOpts == {Absent, PyStr("News"), PyNone}

PublishedOpts == {Absent, PyInt(1700)}

OriginOpts == {Absent, PyDict([title |-> PyStr("Feed A")]), EmptyDict, PyNone}

SummaryOpts == {Absent, PyDict([content |-> PyStr("text")]), EmptyDict, PyNone, PyStr("plain")}

CategoriesOpts ==
    {Absent, PyList(<<PyStr(ReadTag)>>), PyList(<<PyStr("other"), PyStr(StarredTag)>>), PyNone,
     PyList(<<PyStr(StarredTag), PyStr(ReadTag)>>), PyList(<<>>),
     PyList(<<PyStr(ReadTag \o "-later"), PyNone>>), PyStr(ReadTag \o "-later")}

AlternateOpts ==
    {Absent, PyList(<<PyDict([href |-> PyStr("http://a/1")])>>), PyList(<<>>),
     PyList(<<PyStr("x")>>), PyNone}

\* the JSON object that holds the fields of r that are present
ItemOf(r) == PyDict([k \in {f \in DOMAIN r : r[f] # Absent} |-> r[k]])

RawItems ==
    {ItemOf(r) : r \in [id : IdOpts, title : TitleOpts, published : PublishedOpts,
                        origin : OriginOpts, summary : SummaryOpts,
                        categories : CategoriesOpts, alternate : AlternateOpts]}
    \cup {PyDict([garbage |-> PyBool(TRUE)]), PyNone, PyStr("garbage"), PyList(<<>>)}

InitParse ==
    /\ host = "library"
    /\ pc = "library"
    /\ InitClient
    /\ hashseed \in 0..MaxSeed
    /\ arg \in [fn : {"_parse_article"}, item : RawItems]
    /\ ret = Null

\* client._parse_article(item)
ParseArticle ==
    /\ arg.fn = "_parse_article"
    /\ ret = Null
    /\ ret' = parse_article(arg.item, hashseed)
    /\ UNCHANGED <<host, pc, auth_token, is_closed, releases, auth_calls, granted, hashseed, last, arg>>

NextParse == ParseArticle

SpecParse == InitParse /\ [][NextParse]_vars

-----------------------------------------------------------------------------
(* The feed-id normaliser on its own.                                      *)

\* the ways of writing the integer k that int() accepts
Numerals(k) ==
    LET d == ToString(k) IN
    {d, " " \o d \o "\n"}
    \cup (IF k >= 0 THEN {"+" \o d, "00" \o d} ELSE {})
    \cup (IF k >= 10 THEN {SubSeq(d, 1, 1) \o "_" \o SubSeq(d, 2, Len(d))} ELSE {})

NonNumerals == {"", "feed/", "abc", "http://c/rss", "1.5", "0x1f", "12a", "feed/7", "1__2", "-"}

FeedIdInputs ==
    UNION {{[fn |-> "_extract_feed_id", s |-> n, numeric |-> TRUE, k |-> k] : n \in Numerals(k)} :
              k \in -MaxInt..MaxInt}
    \cup {[fn |-> "_extract_feed_id", s |-> x, numeric |-> FALSE, k |-> 0] : x \in NonNumerals}

InitFeedId ==
    /\ host = "library"
    /\ pc = "library"
    /\ InitClient
    /\ hashseed \in 0..MaxSeed
    /\ arg \in FeedIdInputs
    /\ ret = Null

\* FreshRSSClient._extract_feed_id(s) and FreshRSSClient._extract_feed_id("feed/" + s)
ExtractFeedId ==
    /\ arg.fn = "_extract_feed_id"
    /\ ret = Null
    /\ ret' = [plain |-> extract_feed_id_str(arg.s, hashseed),
               prefixed |-> extract_feed_id_str("feed/" \o arg.s, hashseed)]
    /\ UNCHANGED <<host, pc, auth_token, is_closed, releases, auth_calls, granted, hashseed, last, arg>>

NextFeedId == ExtractFeedId

SpecFeedId == InitFeedId /\ [][NextFeedId]_vars

-----------------------------------------------------------------------------
(* Both identifier normalisers, each called twice in one process.          *)

HexChar(d) == SubSeq("0123456789abcdef", d + 1, d + 1)

\* the hex digits of k >= 0
RECURSIVE HexDigits(_)
HexDigits(k) == IF k < 16 THEN HexChar(k) ELSE HexDigits(k \div 16) \o HexChar(k % 16)

\* s padded with zeros on the left to the width w
RECURSIVE ZeroPad(_, _)
ZeroPad(s, w) == IF Len(s) >= w THEN s ELSE ZeroPad("0" \o s, w)

\* the numbers whose 16-digit hex form is fed to _extract_article_id
HexValues == 0..(2 * MaxInt + 8) \cup {255, 4096, 1715004}

\* article identifiers that hold no "reader/item/", or whose last segment is no numeral
OtherArticleIds ==
    {"some-random-string", "", "http://c/rss", "http://c/1", ItemPrefix, ItemPrefix \o "xyz",
     ItemPrefix \o "1.5", ItemPrefix \o "12/zz", ItemPrefix \o "0x", "reader/item/-"}

ArticleIdInputs ==
    {[fn |-> "_extract_article_id", s |-> ItemPrefix \o ToString(k), kind |-> "decimal", k |-> k] :
        k \in (-MaxInt..MaxInt) \cup {1234567890}}
    \cup {[fn |-> "_extract_article_id", s |-> ItemPrefix \o ZeroPad(HexDigits(k), 16),
           kind |-> "hex", k |-> k] : k \in HexValues}
    \cup {[fn |-> "_extract_article_id", s |-> x, kind |-> "other", k |-> 0] : x \in OtherArticleIds}

InitIds ==
    /\ host = "library"
    /\ pc = "library"
    /\ InitClient
    /\ hashseed \in 0..MaxSeed
    /\ arg \in FeedIdInputs \cup ArticleIdInputs
    /\ ret = Null

\* FreshRSSClient._extract_article_id(s)
ExtractArticleId ==
    /\ arg.fn = "_extract_article_id"
    /\ ret = Null
    /\ ret' = [value |-> extract_article_id_str(arg.s, hashseed)]
    /\ UNCHANGED <<host, pc, auth_token, is_closed, releases, auth_calls, granted, hashseed, last, arg>>

\* the same call once more, later in the same process
CallAgain ==
    /\ ret # Null
    /\ "first" \notin DOMAIN ret
    /\ ret' = [first |-> ret,
               second |-> IF arg.fn = "_extract_article_id"
                          THEN [value |-> extract_article_id_str(arg.s, hashseed)]
                          ELSE [plain |-> extract_feed_id_str(arg.s, hashseed),
                                prefixed |-> extract_feed_id_str("feed/" \o arg.s, hashseed)]]
    /\ UNCHANGED <<host, pc, auth_token, is_closed, releases, auth_calls, granted, hashseed, last, arg>>

NextIds == ExtractFeedId \/ ExtractArticleId \/ CallAgain

SpecIds == InitIds /\ [][NextIds]_vars

-----------------------------------------------------------------------------
(* The summary truncation on its own.                                      *)

\* every text of letters and spaces up to the length k
RECURSIVE TextsUpTo(_)
TextsUpTo(k) ==
    IF k = 0 THEN {""}
    ELSE TextsUpTo(k - 1) \cup {x \o c : x \in TextsUpTo(k - 1), c \in {"a", " "}}

TruncateInputs ==
    [fn : {"_truncate_summary"}, s : TextsUpTo(MaxStrLen), n : 0..(MaxStrLen + 1)]
    \cup [fn : {"_truncate_summary"}, s : {"hello world this is a test", "hello world"},
          n : {0, 5, 11, 15}]

InitTruncate ==
    /\ host = "library"
    /\ pc = "library"
    /\ InitClient
    /\ hashseed = 0
    /\ arg \in TruncateInputs
    /\ ret = Null

\* _truncate_summary(s, n)
Truncate ==
    /\ arg.fn = "_truncate_summary"
    /\ ret = Null
    /\ ret' = truncate_summary(PyStr(arg.s), arg.n)
    /\ UNCHANGED <<host, pc, auth_token, is_closed, releases, auth_calls, granted, hashseed, last, arg>>

SpecTruncate == InitTruncate /\ [][Truncate]_vars

-----------------------------------------------------------------------------
(* Tool calls in flight together on one client: list_feeds and             *)
(* get_feed_info, each suspended at its two awaits (tools.py).             *)

Tasks == 1..2

\* the tool calls that may be in flight
TaskCalls ==
    {[tool |-> "tool.list_feeds", feed_id |-> 0]}
    \cup {[tool |-> "tool.get_feed_info", feed_id |-> f] : f \in {123, 9}}

\* no answer: the request was never sent
NoReply == [t |-> "none"]

\* the Feed Client call a tool makes after the calls it has made: list_feeds, then get_unread_counts
NextOp(calls) == IF Len(calls) = 0 THEN "list_feeds" ELSE "get_unread_counts"

\* that Feed Client call on the token tok and the transport state closed, answered by reply
ClientCall(op, tok, closed, reply, seed) ==
    CallRec(op, <<>>, reply,
            IF op = "list_feeds" THEN list_feeds(tok, closed, reply, seed)
            ELSE get_unread_counts(tok, closed, reply, seed))

\* a tool answering with what some other finished call fetched
TaskResult_shared(call, calls) ==
    LET others == {t \in Tasks : ret[t].pc = "done" /\ ret[t].calls # calls}
        theirs == IF others = {} THEN calls ELSE ret[CHOOSE t \in others : TRUE].calls
        got == with_counts(theirs[1], theirs[2])
    IN tool_boundary(IF call.tool = "tool.list_feeds" THEN list_feeds_of(got)
                     ELSE get_feed_info_of(got, call.feed_id)).out

\* what the tool returns once its Feed Client calls are made: the listing or the feed, or
\* the error string of the call that raised
TaskResult(call, calls) ==
    LET got == with_counts(calls[1], calls[2]) IN
    tool_boundary(IF call.tool = "tool.list_feeds" THEN list_feeds_of(got)
                  ELSE get_feed_info_of(got, call.feed_id)).out

\* the tool call returns
Done(call, task, calls) ==
    [pc |-> "done", tok0 |-> task.tok0, tok |-> task.tok, calls |-> calls,
     out |-> TaskResult(call, calls)]

\* the tool call runs into its next Feed Client call: the headers are built from the token
\* and the request is handed to the transport; it is suspended until the answer comes,
\* unless the call raises at once (no token, transport closed)
Issued(call, task, tok, closed, seed) ==
    IF get_auth_headers(tok).ok /\ ~closed
    THEN [task EXCEPT !.pc = "awaiting", !.tok = tok]
    ELSE Done(call, task,
              Append(task.calls, ClientCall(NextOp(task.calls), tok, closed, NoReply, seed)))

\* the answer to the request in flight comes and the tool call runs on, to its next await
\* or to its return
Resumed(call, task, reply, tok, closed, seed) ==
    LET rec == ClientCall(NextOp(task.calls), task.tok, FALSE, reply, seed)
        calls == Append(task.calls, rec)
    IN IF ~rec.out.ok \/ Len(calls) = 2 THEN Done(call, task, calls)
       ELSE Issued(call, [task EXCEPT !.calls = calls], tok, closed, seed)

\* the answers a Feed Client call of a tool can get
TaskReplies(op) == IF op = "list_feeds" THEN ToolSubscriptionReplies ELSE ToolUnreadReplies

InitTasks ==
    /\ host = "library"
    /\ pc = "library"
    /\ InitClient
    /\ hashseed \in 0..MaxSeed
    /\ arg \in [Tasks -> TaskCalls]
    /\ ret = [t \in Tasks |-> [pc |-> "ready", tok0 |-> PyNone, tok |-> PyNone,
                               calls |-> <<>>, out |-> Null]]

\* whether no tool call has been made yet
NoneStarted == \A t \in Tasks : ret[t].pc = "ready"

\* the caller authenticates before it makes its tool calls
AuthenticateFirst == NoneStarted /\ Authenticate

\* the caller may have closed the client before its tool calls
ACloseFirst == NoneStarted /\ AClose

\* a tool call is made: it runs up to its first await
StartTool(t) ==
    /\ last = NoCall
    /\ ret[t].pc = "ready"
    /\ ret' = [ret EXCEPT ![t] = Issued(arg[t], [ret[t] EXCEPT !.tok0 = auth_token],
                                        auth_token, is_closed, hashseed)]
    /\ UNCHANGED <<host, pc, auth_token, is_closed, releases, auth_calls, granted, hashseed, last, arg>>

\* the event loop resumes a suspended tool call with the answer to its request
ResumeTool(t) ==
    /\ ret[t].pc = "awaiting"
    /\ \E reply \in TaskReplies(NextOp(ret[t].calls)) :
         ret' = [ret EXCEPT ![t] = Resumed(arg[t], ret[t], reply, auth_token, is_closed, hashseed)]
    /\ UNCHANGED <<host, pc, auth_token, is_closed, releases, auth_calls, granted, hashseed, last, arg>>

NextTasks ==
    \/ AuthenticateFirst
    \/ ACloseFirst
    \/ Return
    \/ \E t \in Tasks : StartTool(t)
    \/ \E t \in Tasks : ResumeTool(t)

SpecTasks == InitTasks /\ [][NextTasks]_vars

-----------------------------------------------------------------------------
(* The per-call variant (freshrss-mcp-server): every tool call loads the   *)
(* configuration, builds its own FreshRSSClient, authenticates it, works   *)
(* on it and closes it.  A client's transport is "None" before the first   *)
(* request creates it, then "open", then "closed".                         *)

required_vars == <<"FRESHRSS_URL", "FRESHRSS_USERNAME", "FRESHRSS_PASSWORD">>

\* the environments a call can find: the required variables that are set and not empty
Environments == SUBSET {required_vars[i] : i \in 1..Len(required_vars)}

\* what the service answers to the credential POST of a call
PerCallAuthReplies ==
    {r \in AuthReplies : r.t = "resp" => (r.status # 204 /\ Len(r.lines) <= 1)}

IsMissing(var, env) == var \notin env

\* Config.from_env(): the optional variables are left at their defaults
from_env(env) ==
    LET missing == SelectSeq(required_vars, LAMBDA var : IsMissing(var, env)) IN
    IF Len(missing) > 0
    THEN Raise(Exc("ValueError",
                   "Missing required environment variables: " \o JoinComma(missing)))
    ELSE Ok(env)

\* FreshRSSClient._get_client(): the transport handed out, created when there is none to use
http_client(transport) ==
    IF transport = "None" \/ transport = "closed" THEN "open" ELSE transport

\* FreshRSSClient.close()
close(transport) == IF transport = "open" THEN "closed" ELSE transport

\* FreshRSSClient.authenticate() of the variant: every exception of the try block,
\* its own "No SID" error included, is wrapped by the last except clause
percall_authenticate(transport, reply) ==
    LET req == [method |-> "POST", url |-> ApiUrl \o "/accounts/ClientLogin"]
        sent == Send(FALSE, reply)
    IN
    IF ~sent.out.ok
    THEN LET e == sent.out.err IN
         [out |-> Raise(IF e.cls = "HTTPStatusError"
                        THEN AuthenticationError("Authentication failed: " \o ToString(e.status), e.cls)
                        ELSE AuthenticationError("Authentication error: " \o e.msg, e.cls)),
          token |-> PyNone, transport |-> http_client(transport), reqs |-> <<req>>]
    ELSE LET lines == Split(reply.body, "\n")
             i == FirstSid(lines, 1)
         IN IF i = 0
            THEN [out |-> Raise(AuthenticationError(
                                   "Authentication error: No SID found in authentication response",
                                   "AuthenticationError")),
                  token |-> PyNone, transport |-> http_client(transport), reqs |-> <<req>>]
            ELSE [out |-> Ok(PyStr(SliceFrom(lines[i], 4))),
                  token |-> PyStr(SliceFrom(lines[i], 4)),
                  transport |-> http_client(transport), reqs |-> <<req>>]

\* server._get_client(): the configuration, a new client, its authenticate()
server_get_client(env, reply) ==
    LET config == from_env(env) IN
    IF ~config.ok
    THEN [out |-> config, token |-> PyNone, transport |-> "None", reqs |-> <<>>]
    ELSE percall_authenticate("None", reply)

\* [feed.to_dict() for feed in feeds] with the counts merged in
percall_feeds(feeds, counts) == [i \in 1..Len(feeds) |-> merged_dict(feeds[i], counts)]

\* the loop of the variant's get_feed_info: the first feed with the id, or ValueError
RECURSIVE percall_feed_info(_, _, _)
percall_feed_info(feeds, counts, feed_id) ==
    IF Len(feeds) = 0
    THEN Raise(Exc("ValueError", "Feed " \o ToString(feed_id) \o " not found"))
    ELSE IF Head(feeds).id = feed_id THEN Ok(merged_dict(Head(feeds), counts))
    ELSE percall_feed_info(Tail(feeds), counts, feed_id)

\* the try block of either tool: both client calls on the open transport of this call's
\* client, then the result built from them
percall_try(got, feed_id) ==
    IF ~got.out.ok THEN got.out
    ELSE IF feed_id = PyNone
    THEN Ok(percall_feeds(got.out.val.feeds, got.out.val.unread_counts))
    ELSE percall_feed_info(got.out.val.feeds, got.out.val.unread_counts, feed_id.v)

\* a tool of the variant: client = await _get_client() ahead of the try statement, the
\* try block, and client.close() in its finally clause
percall_tool(env, replies, seed, feed_id) ==
    LET got == server_get_client(env, replies[1]) IN
    IF ~got.out.ok
    THEN [out |-> got.out, transport |-> got.transport, login |-> got.reqs, calls |-> <<>>]
    ELSE LET work == feeds_and_counts(got.token, FALSE, <<replies[2], replies[3]>>, seed) IN
         [out |-> percall_try(work, feed_id),
          transport |-> close(got.transport),
          login |-> got.reqs,
          calls |-> work.calls]

PerCallRecord(op, args, env, r) ==
    [op |-> op, args |-> args, env |-> env, out |-> r.out, transport |-> r.transport,
     login |-> r.login, calls |-> r.calls]

PerCallReplies ==
    {<<a, s, u>> : a \in PerCallAuthReplies, s \in ToolSubscriptionReplies, u \in ToolUnreadReplies}

InitPerCall ==
    /\ host = "per-call"
    /\ pc = "serving"
    /\ InitClient
    /\ hashseed \in 0..MaxSeed
    /\ arg \in Environments
    /\ ret = Null

\* the variant's tool list_feeds()
PerCallListFeeds ==
    /\ host = "per-call"
    /\ last = NoCall
    /\ \E replies \in PerCallReplies :
         last' = PerCallRecord("percall.list_feeds", <<>>, arg,
                               percall_tool(arg, replies, hashseed, PyNone))
    /\ Frame

\* the variant's tool get_feed_info(feed_id)
PerCallGetFeedInfo ==
    /\ host = "per-call"
    /\ last = NoCall
    /\ \E replies \in PerCallReplies, feed_id \in ToolFeedIds :
         last' = PerCallRecord("percall.get_feed_info", [feed_id |-> feed_id], arg,
                               percall_tool(arg, replies, hashseed, PyInt(feed_id)))
    /\ Frame

\* the environment of the process changes between two calls
SetEnvironment ==
    /\ host = "per-call"
    /\ last = NoCall
    /\ \E env \in Environments : env # arg /\ arg' = env
    /\ UNCHANGED <<host, pc, auth_token, is_closed, releases, auth_calls, granted, hashseed, last, ret>>

NextPerCall == PerCallListFeeds \/ PerCallGetFeedInfo \/ SetEnvironment \/ Return

SpecPerCall == InitPerCall /\ [][NextPerCall]_vars

-----------------------------------------------------------------------------
(* Properties.                                                             *)

ToolOps ==
    {"tool.get_unread_articles", "tool.get_articles_by_feed", "tool.search_articles",
     "tool.list_feeds", "tool.get_feed_info", "tool.get_feed_stats", "tool.mark_as_read",
     "tool.mark_as_unread", "tool.star_article", "tool.unstar_article"}

\* C1: a tool call never raises; when a Feed Client call it made raised an error, it
\* returns exactly "Error: " followed by that error's message.
C1_ErrorsBecomeStrings ==
    (last.op \in ToolOps) =>
        /\ last.out.ok
        /\ last.out.val.t = "str"
        /\ \A i \in 1..Len(last.calls) :
               ~last.calls[i].out.ok =>
                   last.out.val.v = "Error: " \o last.calls[i].out.err.msg

C1_Witness ==
    /\ last.op = "tool.get_unread_articles"
    /\ Len(last.calls) = 1
    /\ last.calls[1].out = Raise(Exc("RuntimeError", "connection lost"))
    /\ last.out = Ok(PyStr("Error: connection lost"))

\* C2: when main() serves tool calls, authenticate() has run exactly once on the shared
\* client, the session holds a token, and no tool call is rejected for lack of a token.
C2_AuthenticatedBeforeServing ==
    (host = "main" /\ pc = "serving") =>
        /\ auth_calls = 1
        /\ Truthy(auth_token)
        /\ (last.op \in ToolOps => last.out # Ok(PyStr("Error: " \o NotAuthenticatedMsg)))

\* whether the tool call on record has to reach the upstream service
NeedsUpstream ==
    /\ last.op \in ToolOps
    /\ ~(last.op \in {"tool.mark_as_read", "tool.mark_as_unread"} /\ Len(last.args) = 0)

\* C6: a tool call that needs the upstream service and is made after the transport was
\* closed returns an "Error: " string, none of its requests reaches the network, and the
\* transport is still closed afterwards.
C6_ClosedFailsFast ==
    (NeedsUpstream /\ last.closed) =>
        /\ last.out.ok
        /\ StartsWith(last.out.val.v, "Error: ")
        /\ Len(last.calls) = 1
        /\ last.calls[1].net = 0
        /\ is_closed

C6_Witness ==
    /\ last.op = "tool.list_feeds"
    /\ last.closed
    /\ Truthy(last.token)
    /\ last.calls[1].reply.t = "resp"
    /\ last.calls[1].reply.status = 200
    /\ last.out = Ok(PyStr("Error: " \o ClosedMsg))
    /\ is_closed

FeedOps ==
    {"list_feeds", "get_unread_counts", "get_articles",
     "mark_as_read", "mark_as_unread", "star_article", "unstar_article"}

\* C3: with no token held, every Feed Client operation fails with AuthenticationError
\* and makes no transport call at all.
C3_NoTokenNoRequest ==
    (last.op \in FeedOps /\ last.token = PyNone) =>
        /\ ~last.out.ok
        /\ last.out.err.cls = "AuthenticationError"
        /\ Len(last.reqs) = 0
        /\ last.net = 0

C3_Witness ==
    /\ last.op = "get_articles"
    /\ last.token = PyNone
    /\ ~last.closed
    /\ last.replies[1].t = "resp"
    /\ last.replies[1].status = 200
    /\ ~last.out.ok

\* the text after "SID=" on the first line that begins with it
FirstSidToken(lines) ==
    LET i == CHOOSE k \in 1..Len(lines) :
                 /\ StartsWith(lines[k], "SID=")
                 /\ \A j \in 1..(k - 1) : ~StartsWith(lines[j], "SID=")
    IN SliceFrom(lines[i], 4)

\* C4: authenticate() makes one credential POST; a 2xx body with a "SID=" line stores and
\* returns the rest of the first such line; a non-2xx status, a body without such a line and
\* a transport exception each raise AuthenticationError (with the status code, with
\* "No SID found", wrapping the cause); no other error kind leaves it.
C4_AuthenticateOutcomes ==
    (last.op = "authenticate") =>
        LET reply == last.replies[1] IN
        /\ Len(last.reqs) = 1
        /\ last.reqs[1].method = "POST"
        /\ last.reqs[1].url = ApiUrl \o "/accounts/ClientLogin"
        /\ (~last.out.ok => last.out.err.cls = "AuthenticationError")
        /\ CASE last.closed ->
                  /\ ~last.out.ok
                  /\ last.out.err.cause = "RuntimeError"
                  /\ auth_token = last.token
             [] reply.t = "exc" ->
                  /\ ~last.out.ok
                  /\ last.out.err.cause = reply.err.cls
                  /\ Contains(last.out.err.msg, reply.err.msg)
                  /\ auth_token = last.token
             [] reply.status < 200 \/ reply.status > 299 ->
                  /\ ~last.out.ok
                  /\ Contains(last.out.err.msg, ToString(reply.status))
                  /\ auth_token = last.token
             [] \E k \in 1..Len(reply.lines) : StartsWith(reply.lines[k], "SID=") ->
                  /\ last.out = Ok(PyStr(FirstSidToken(reply.lines)))
                  /\ auth_token = PyStr(FirstSidToken(reply.lines))
             [] OTHER ->
                  /\ ~last.out.ok
                  /\ StartsWith(last.out.err.msg, "No SID found")
                  /\ auth_token = last.token

C4_Witness ==
    /\ last.op = "authenticate"
    /\ ~last.closed
    /\ last.replies[1].t = "resp"
    /\ last.replies[1].lines = <<"LSID=def", "SID=xyz">>
    /\ last.out = Ok(PyStr("xyz"))
    /\ auth_token = PyStr("xyz")

\* C5: _get_auth_headers() fails exactly when no authenticate() has succeeded yet, and after
\* a successful authenticate() that returned t it returns {Authorization: "GoogleLogin auth=" + t}.
C5_HeadersIffAuthenticated ==
    (last.op = "_get_auth_headers") =>
        /\ (~last.out.ok <=> granted = PyNone)
        /\ (~last.out.ok => last.out.err.cls = "AuthenticationError")
        /\ (granted # PyNone =>
                last.out = Ok([Authorization |-> "GoogleLogin auth=" \o granted.v]))

\* C7: aclose() never raises and leaves the transport closed; the transport is released at
\* most once however often aclose() is called, a call on a closed transport releasing nothing.
C7_ACloseIdempotent ==
    /\ releases <= 1
    /\ (last.op = "aclose") =>
           /\ is_closed
           /\ last.out.ok
           /\ (last.closed => ~last.released)

C7_Witness ==
    /\ last.op = "aclose"
    /\ last.closed
    /\ is_closed
    /\ releases = 1

\* whether each sub-field the parser reads is missing or of the type the parser expects
WellTyped(item) ==
    /\ item.t = "dict"
    /\ ("id" \in DOMAIN item.v => item.v.id.t = "str")
    /\ ("origin" \in DOMAIN item.v => item.v.origin.t = "dict")
    /\ ("summary" \in DOMAIN item.v => item.v.summary.t = "dict")
    /\ ("categories" \in DOMAIN item.v => item.v.categories.t = "list")
    /\ ("alternate" \in DOMAIN item.v =>
            /\ item.v.alternate.t = "list"
            /\ \A i \in 1..Len(item.v.alternate.v) : item.v.alternate.v[i].t = "dict")

\* the defaults an Article carries for the fields its record lacks
HasDefaults(item, article) ==
    /\ ("title" \notin DOMAIN item.v => article.title = PyStr("Untitled"))
    /\ ("summary" \notin DOMAIN item.v => article.summary = PyStr(""))
    /\ ("alternate" \notin DOMAIN item.v => article.url = PyStr(""))
    /\ ("published" \notin DOMAIN item.v => article.published = PyInt(0))
    /\ ("origin" \notin DOMAIN item.v => article.feed_name = PyStr("Unknown Feed"))

Parseable(item) == parse_article(item, hashseed).t = "Article"

\* C9: on a 2xx stream response get_articles does not raise because of an item: it returns
\* the Articles of the parseable items in source order, drops the others, and has sent
\* exactly one request.
C9_BadItemsDropped ==
    (/\ last.op = "get_articles"
     /\ Truthy(last.token)
     /\ ~last.closed
     /\ last.replies[1].t = "resp"
     /\ last.replies[1].status = 200
     /\ last.replies[1].body.t = "dict"
     /\ "items" \in DOMAIN last.replies[1].body.v
     /\ last.replies[1].body.v.items.t = "list") =>
        LET good == SelectSeq(last.replies[1].body.v.items.v, Parseable) IN
        /\ last.out.ok
        /\ last.out.val = [i \in 1..Len(good) |-> parse_article(good[i], hashseed)]
        /\ Len(last.reqs) = 1
        /\ last.net = 1

C9_Witness ==
    /\ last.op = "get_articles"
    /\ last.replies[1].t = "resp"
    /\ last.replies[1].status = 200
    /\ last.replies[1].body = PyDict([items |-> PyList(<<ItemBadOrigin, ItemA>>)])
    /\ last.out.ok
    /\ Len(last.out.val) = 1
    /\ last.out.val[1].id = 12

\* C10: for every string n that int() accepts, _extract_feed_id("feed/" + n) and
\* _extract_feed_id(n) both are int(n).
C10_FeedIdOfNumeral ==
    (arg.fn = "_extract_feed_id" /\ ret # Null /\ arg.numeric) =>
        /\ ret.plain = arg.k
        /\ ret.prefixed = arg.k

C10_Witness ==
    /\ arg.fn = "_extract_feed_id"
    /\ arg.s = "+7"
    /\ ret # Null
    /\ ret.plain = 7
    /\ ret.prefixed = 7

\* the first call's result of an _extract_article_id call on record
ArticleIdResult == IF "first" \in DOMAIN ret THEN ret.first.value ELSE ret.value

\* C11: for every integer n, _extract_article_id of the identifier _edit_tags builds for n
\* ("tag:google.com,2005:reader/item/" + str(n)) is n.
C11_DecimalRoundTrip ==
    (arg.fn = "_extract_article_id" /\ arg.kind = "decimal" /\ ret # Null) =>
        ArticleIdResult = arg.k

C11_Witness ==
    /\ arg.fn = "_extract_article_id"
    /\ arg.s = "tag:google.com,2005:reader/item/-12"
    /\ ret = [value |-> -12]

\* C12: for every identifier "tag:google.com,2005:reader/item/<h>" with <h> the 16-digit
\* zero-padded hex form of a number, _extract_article_id returns that number.
C12_HexValue ==
    (arg.fn = "_extract_article_id" /\ arg.kind = "hex" /\ ret # Null) =>
        ArticleIdResult = arg.k

\* whether int() rejects what _extract_feed_id is left with once the prefix is cut off
FeedBodyRejected(s) ==
    ~ParseInt(IF StartsWith(s, "feed/") THEN SliceFrom(s, 5) ELSE s, 10).ok

\* the results of one call on record are hash fallbacks within their bounds
FallbackInBounds(r) ==
    /\ (arg.fn = "_extract_feed_id" /\ FeedBodyRejected(arg.s)) => r.plain \in 0..(FeedHashBound - 1)
    /\ (arg.fn = "_extract_feed_id" /\ FeedBodyRejected("feed/" \o arg.s)) =>
           r.prefixed \in 0..(FeedHashBound - 1)
    /\ (arg.fn = "_extract_article_id" /\ arg.kind = "other") =>
           r.value \in 0..(ArticleHashBound - 1)

Listed(tag, item) ==
    /\ "categories" \in DOMAIN item.v
    /\ item.v.categories.t = "list"
    /\ \E i \in 1..Len(item.v.categories.v) : item.v.categories.v[i] = PyStr(tag)

EditOps == {"mark_as_read", "mark_as_unread", "star_article", "unstar_article"}

\* the form fields an edit operation is to post for the ids it was given
EditData(op, ids) ==
    [i |-> [k \in 1..Len(ids) |-> "tag:google.com,2005:reader/item/" \o ToString(ids[k])]]
    @@ (CASE op = "mark_as_read" -> [a |-> <<"user/-/state/com.google/read">>]
          [] op = "mark_as_unread" -> [r |-> <<"user/-/state/com.google/read">>]
          [] op = "star_article" -> [a |-> <<"user/-/state/com.google/starred">>]
          [] op = "unstar_article" -> [r |-> <<"user/-/state/com.google/starred">>])

\* C15: on an authenticated, open session each of mark_as_read, mark_as_unread,
\* star_article and unstar_article sends exactly one edit-tag POST whose items are the
\* fully-qualified identifiers of the given ids in order and whose only tag list is its
\* own (add read, remove read, add starred, remove starred); it returns True on a 2xx
\* response and raises on every other response.
C15_OneEditTagPost ==
    (last.op \in EditOps /\ Truthy(last.token) /\ ~last.closed) =>
        /\ Len(last.reqs) = 1
        /\ last.net = 1
        /\ last.reqs[1].method = "POST"
        /\ last.reqs[1].url = ApiUrl \o "/reader/api/0/edit-tag"
        /\ last.reqs[1].data = EditData(last.op, last.args)
        /\ (last.replies[1].t = "resp" =>
               IF last.replies[1].status \in 200..299
               THEN last.out = Ok(PyBool(TRUE))
               ELSE ~last.out.ok)

C15_Witness ==
    /\ last.op = "mark_as_unread"
    /\ last.args = <<100, 200>>
    /\ Truthy(last.token)
    /\ ~last.closed
    /\ last.replies[1].t = "resp"
    /\ last.replies[1].status = 204
    /\ last.out = Ok(PyBool(TRUE))
    /\ DOMAIN last.reqs[1].data = {"i", "r"}

\* the subscriptions a subscription-list answer holds
SubscriptionsOf(reply) ==
    IF "subscriptions" \in DOMAIN reply.body.v THEN reply.body.v.subscriptions.v ELSE <<>>

\* the count the lookup holds for the feed id, 0 when it holds none
CountFor(counts, id) == IF id \in DOMAIN counts THEN counts[id] ELSE PyInt(0)

\* the entry of a feed in the output of list_feeds, and in that of get_feed_stats
FeedEntry(op, feed, counts) ==
    IF op = "tool.get_feed_stats"
    THEN << <<"feed_id", PyInt(feed.id)>>, <<"feed_name", feed.name>>,
            <<"unread_count", CountFor(counts, feed.id)>> >>
    ELSE << <<"id", PyInt(feed.id)>>, <<"name", feed.name>>, <<"url", feed.url>>,
            <<"unread_count", CountFor(counts, feed.id)>> >>

\* the text of one entry per feed, in the order of the feeds
FeedEntries(op, feeds, counts) ==
    ReprDicts([i \in 1..Len(feeds) |-> FeedEntry(op, feeds[i], counts)])

\* C16: when list_feeds or get_feed_stats returns a listing, it has made two Feed Client
\* calls, the subscription list and then the unread counts, and the listing has exactly one
\* entry per subscription, in source order, whose unread count is what the unread-count
\* lookup holds for that feed's id, or 0 when it holds nothing for it.
C16_FeedsMergedById ==
    (/\ last.op \in {"tool.list_feeds", "tool.get_feed_stats"}
     /\ ~StartsWith(last.out.val.v, "Error: ")) =>
        /\ Len(last.calls) = 2
        /\ last.calls[1].op = "list_feeds"
        /\ last.calls[2].op = "get_unread_counts"
        /\ Len(last.calls[1].out.val) = Len(SubscriptionsOf(last.calls[1].reply))
        /\ last.out.val.v =
               FeedEntries(last.op, last.calls[1].out.val, last.calls[2].out.val)

C16_Witness ==
    /\ last.op = "tool.list_feeds"
    /\ Len(last.calls) = 2
    /\ SubscriptionsOf(last.calls[1].reply) = <<Sub123, Sub456>>
    /\ last.calls[2].out = Ok((123 :> PyInt(5)))
    /\ last.out = Ok(PyStr("[{'id': 123, 'name': 'A', 'url': 'u1', 'unread_count': 5}, "
                           \o "{'id': 456, 'name': 'B', 'url': 'u2', 'unread_count': 0}]"))

\* the places in the listing of the feeds that have the id
Hits(feeds, id) == {i \in 1..Len(feeds) : feeds[i].id = id}

\* what get_feed_info is to answer for the listing, the lookup and the id
FeedInfo(feeds, counts, id) ==
    IF Hits(feeds, id) = {}
    THEN "Error: Feed " \o ToString(id) \o " not found"
    ELSE ReprDict(FeedEntry("tool.get_feed_info",
                            feeds[CHOOSE i \in Hits(feeds, id) : \A j \in Hits(feeds, id) : i <= j],
                            counts))

\* C17: once the subscription listing and the unread counts are in, get_feed_info(feed_id)
\* returns the string "Error: Feed <feed_id> not found" exactly when no feed of the
\* listing has the id, and otherwise the first feed with the id, its unread count taken
\* from the lookup (0 when the lookup holds none).
C17_FeedInfoOrNotFound ==
    (/\ last.op = "tool.get_feed_info"
     /\ Len(last.calls) = 2
     /\ last.calls[1].out.ok
     /\ last.calls[2].out.ok) =>
        last.out = Ok(PyStr(FeedInfo(last.calls[1].out.val, last.calls[2].out.val,
                                     last.args.feed_id)))

C17_Witness ==
    /\ last.op = "tool.get_feed_info"
    /\ last.args.feed_id = 456
    /\ Len(last.calls) = 2
    /\ last.calls[1].out.ok
    /\ Len(last.calls[1].out.val) = 3
    /\ last.calls[2].out = Ok((456 :> PyInt(3)) @@ (123 :> PyInt(6)))
    /\ last.out = Ok(PyStr("{'id': 456, 'name': 'B', 'url': 'u2', 'unread_count': 3}"))

C17_WitnessNotFound ==
    /\ last.op = "tool.get_feed_info"
    /\ last.args.feed_id = 9
    /\ Len(last.calls) = 2
    /\ last.calls[2].out.ok
    /\ last.out = Ok(PyStr("Error: Feed 9 not found"))

\* C18: mark_as_read([]) and mark_as_unread([]) return "OK" without a Feed Client call,
\* hence without a transport call, whether or not the session holds a token and whether
\* the transport is open or closed.
C18_EmptyListNoCall ==
    (last.op \in {"tool.mark_as_read", "tool.mark_as_unread"} /\ last.args = <<>>) =>
        /\ last.out = Ok(PyStr("OK"))
        /\ last.calls = <<>>

C18_Witness ==
    /\ last.op = "tool.mark_as_read"
    /\ last.args = <<>>
    /\ last.closed
    /\ ~Truthy(last.token)
    /\ last.out = Ok(PyStr("OK"))

\* the places of the spaces within the first n characters of s
SpacesWithin(s, n) == {p \in 1..n : p <= Len(s) /\ SubSeq(s, p, p) = " "}

\* head is a prefix of s that ends at or before the last space within the first n
\* characters of s, when there is one
CutAtSpace(head, s, n) ==
    /\ Len(head) <= Len(s)
    /\ head = SubSeq(s, 1, Len(head))
    /\ \A p \in SpacesWithin(s, n) :
           (\A q \in SpacesWithin(s, n) : q <= p) => Len(head) <= p

\* the claim of C19 about the result out of _truncate_summary(s, n)
Truncated(out, s, n) ==
    IF Len(s) <= n THEN out = s
    ELSE /\ Len(out) >= 3
         /\ SubSeq(out, Len(out) - 2, Len(out)) = "..."
         /\ Len(out) <= n + 3
         /\ CutAtSpace(SubSeq(out, 1, Len(out) - 3), s, n)

\* C19: for every str s and n >= 0, _truncate_summary(s, n) is s when len(s) <= n;
\* otherwise it ends with "...", is at most n + 3 long, and what stands before the
\* ellipsis is a prefix of s ending at or before the last space within the first n
\* characters of s.
C19_TruncateAtSpace ==
    (arg.fn = "_truncate_summary" /\ ret # Null) =>
        /\ ret.ok
        /\ ret.val.t = "str"
        /\ Truncated(ret.val.v, arg.s, arg.n)

C19_Witness ==
    /\ arg.fn = "_truncate_summary"
    /\ arg.s = "hello world this is a test"
    /\ arg.n = 15
    /\ ret = Ok(PyStr("hello world..."))

\* the articles the calls returned, one after the other
RECURSIVE Fetched(_)
Fetched(calls) == IF calls = <<>> THEN <<>> ELSE Head(calls).out.val \o Fetched(Tail(calls))

\* whether the title or the summary of the article holds the query, whatever the case
HoldsQuery(a, query) ==
    \/ a.title.t = "str" /\ Contains(Lower(a.title.v), Lower(query))
    \/ a.summary.t = "str" /\ Contains(Lower(a.summary.v), Lower(query))

\* the first limit of the articles that hold the query, in their order
FirstHolding(articles, query, limit) ==
    LET Hit(a) == HoldsQuery(a, query)
        hits == SelectSeq(articles, Hit)
    IN SubSeq(hits, 1, IF limit < Len(hits) THEN limit ELSE Len(hits))

\* the feeds search_articles is to fetch: the given ids in order, else the reading list
SearchFeeds(feed_ids) == IF Truthy(feed_ids) THEN feed_ids.v ELSE <<PyNone>>

\* C20: when search_articles(query, limit, feed_ids) returns a listing, it has made one
\* get_articles call per given feed id in list order (one reading-list call when none is
\* given), each with limit * 3 and include_read true, and the listing holds exactly the
\* first limit of the fetched articles, in fetch order, whose title or summary holds the
\* query as a case-insensitive substring.
C20_SearchFiltersFetched ==
    (last.op = "tool.search_articles" /\ ~StartsWith(last.out.val.v, "Error: ")) =>
        /\ Len(last.calls) = Len(SearchFeeds(last.args.feed_ids))
        /\ \A i \in 1..Len(last.calls) :
               /\ last.calls[i].op = "get_articles"
               /\ last.calls[i].args =
                      [feed_id |-> SearchFeeds(last.args.feed_ids)[i],
                       limit |-> last.args.limit * 3,
                       include_read |-> TRUE,
                       since_timestamp |-> PyNone]
        /\ \E found \in {FirstHolding(Fetched(last.calls), last.args.query, last.args.limit)} :
               /\ Len(found) <= last.args.limit
               /\ last.out.val.v = ReprDicts([i \in 1..Len(found) |-> article_to_dict(found[i])])

C20_Witness ==
    /\ last.op = "tool.search_articles"
    /\ last.args = [query |-> "Again", limit |-> 1, feed_ids |-> TwoFeeds]
    /\ Len(last.calls) = 2
    /\ \A i \in 1..2 : last.calls[i].out.ok
    /\ Len(Fetched(last.calls)) = 3
    /\ last.calls[1].args.limit = 3
    /\ last.out.val.v =
          "[{'id': 10, 'title': 'beta', 'summary': 'the Alpha again', 'url': '', "
          \o "'published': 30, 'feed_name': 'Unknown Feed', 'is_read': False, "
          \o "'is_starred': True}]"

\* whether the article at j stands before the one at i once the articles are sorted newest
\* first, equals keeping their order
Before(articles, j, i) ==
    /\ j # i
    /\ \/ articles[j].published.v > articles[i].published.v
       \/ articles[j].published.v = articles[i].published.v /\ j < i

\* the articles newest first
NewestFirst(articles) ==
    [k \in 1..Len(articles) |->
        articles[CHOOSE i \in 1..Len(articles) :
                     Cardinality({j \in 1..Len(articles) : Before(articles, j, i)}) = k - 1]]

\* the dict of an article with its summary cut to max_summary_length
Shown(a, max_summary_length) ==
    [article_to_dict(a) EXCEPT ![3] = <<"summary", truncate_summary(a.summary, max_summary_length).val>>]

\* C21: when get_unread_articles is called with feed ids and returns a listing, it has made
\* exactly one get_articles call per listed feed id, in order, each with the tool's limit,
\* include_read false and the tool's since_timestamp; the published values of what it fetched
\* are timestamps when there is more than one; and the listing holds the articles of those
\* fetches, newest first (published non-increasing), cut to at most limit.
C21_FanOutSortedTruncated ==
    (/\ last.op = "tool.get_unread_articles"
     /\ Truthy(last.args.feed_ids)
     /\ ~StartsWith(last.out.val.v, "Error: ")) =>
        /\ Len(last.calls) = Len(last.args.feed_ids.v)
        /\ \A i \in 1..Len(last.calls) :
               /\ last.calls[i].op = "get_articles"
               /\ last.calls[i].args =
                      [feed_id |-> last.args.feed_ids.v[i],
                       limit |-> last.args.limit,
                       include_read |-> FALSE,
                       since_timestamp |-> last.args.since_timestamp]
        /\ Len(Fetched(last.calls)) >= 2 =>
               \A i \in 1..Len(Fetched(last.calls)) : Fetched(last.calls)[i].published.t = "int"
        /\ \E top \in {SeqTo(NewestFirst(Fetched(last.calls)), last.args.limit)} :
               /\ Len(top) <= last.args.limit
               /\ \A k \in 1..(Len(top) - 1) : NumVal(top[k].published) >= NumVal(top[k + 1].published)
               /\ \A k \in 1..Len(top) :
                      \E i \in 1..Len(last.calls), n \in 1..MaxItems :
                          n <= Len(last.calls[i].out.val) /\ last.calls[i].out.val[n] = top[k]
               /\ last.out.val.v =
                      ReprDicts([k \in 1..Len(top) |-> Shown(top[k], last.args.max_summary_length)])

C21_Witness ==
    /\ last.op = "tool.get_unread_articles"
    /\ last.args.feed_ids = TwoFeeds
    /\ last.args.limit = 20
    /\ Len(last.calls) = 2
    /\ \A i \in 1..2 : last.calls[i].out.ok
    /\ Len(Fetched(last.calls)) = 4
    /\ last.out.val.v =
          "[{'id': 10, 'title': 'beta', 'summary': 'the...', 'url': '', "
          \o "'published': 30, 'feed_name': 'Unknown Feed', 'is_read': False, "
          \o "'is_starred': True}, "
          \o "{'id': 14, 'title': 'delta', 'summary': 'delta...', 'url': '', "
          \o "'published': 30, 'feed_name': 'Unknown Feed', 'is_read': False, "
          \o "'is_starred': False}, "
          \o "{'id': 12, 'title': 'Alpha News', 'summary': 'alpha...', 'url': 'http://a/1', "
          \o "'published': 20, 'feed_name': 'Feed A', 'is_read': True, "
          \o "'is_starred': False}, "
          \o "{'id': 12, 'title': 'Alpha News', 'summary': 'alpha...', 'url': 'http://a/1', "
          \o "'published': 20, 'feed_name': 'Feed A', 'is_read': True, "
          \o "'is_starred': False}]"

\* C22: every get_articles call that sends its request sends it to the stream chosen from
\* feed_id alone: "feed/<feed_id>" for every feed_id that is given, 0 included, and the
\* reading-list aggregate only when feed_id is not given.
C22_StreamFromFeedId ==
    (last.op = "get_articles" /\ Len(last.reqs) = 1) =>
        last.reqs[1].url =
            ApiUrl \o "/reader/api/0/stream/contents/"
            \o (IF last.args.feed_id = PyNone
                THEN "user/-/state/com.google/reading-list"
                ELSE "feed/" \o ToString(last.args.feed_id.v))

\* the unread-count entries of a 2xx answer
UnreadEntriesOf(reply) ==
    IF "unreadcounts" \in DOMAIN reply.body.v THEN reply.body.v.unreadcounts.v ELSE <<>>

\* the id an entry carries, empty when it carries none
EntryId(e) == IF "id" \in DOMAIN e.v THEN e.v.id.v ELSE ""

\* the count an entry carries, 0 when it carries none
EntryCount(e) == IF "count" \in DOMAIN e.v THEN e.v.count ELSE PyInt(0)

\* C23: the lookup get_unread_counts returns has one key per entry whose id is not empty,
\* the normalised id (key 0 for "feed/0" and "0"), holding the count of the last such entry
\* (0 when the count is absent); entries whose id is empty or missing add nothing.
C23_ZeroKeptEmptyDropped ==
    (last.op = "get_unread_counts" /\ last.out.ok) =>
        \E es \in {UnreadEntriesOf(last.replies[1])} :
            \E named \in {{i \in 1..Len(es) : EntryId(es[i]) # ""}} :
                /\ DOMAIN last.out.val =
                       {extract_feed_id_str(EntryId(es[i]), hashseed) : i \in named}
                /\ \A i \in named :
                       (\A j \in named :
                           j > i => extract_feed_id_str(EntryId(es[j]), hashseed)
                                      # extract_feed_id_str(EntryId(es[i]), hashseed))
                       => last.out.val[extract_feed_id_str(EntryId(es[i]), hashseed)]
                             = EntryCount(es[i])

\* whether the answer on the wire makes the request fail: no answer, or a non-2xx status
FailedAnswer(reply) == reply.t = "exc" \/ ~IsSuccess(reply.status)

\* whether out is the transport's own error for the answer: the exception the connection
\* raised, or the status error of raise_for_status()
TransportErrorOf(out, reply) ==
    /\ ~out.ok
    /\ IF reply.t = "exc" THEN out.err = reply.err
       ELSE out.err.cls = "HTTPStatusError" /\ out.err.status = reply.status

\* at most one request, none of them the credential POST
OneRequestNoLogin(reqs, net) ==
    /\ Len(reqs) <= 1
    /\ net <= Len(reqs)
    /\ \A i \in 1..Len(reqs) : reqs[i].url # ApiUrl \o "/accounts/ClientLogin"

\* C24: a Feed Client operation makes at most one request and never the credential POST;
\* when its request reached the network and failed (no answer, or a non-2xx status such as
\* 401 or 403) it raises the transport's error as it is, and the token is what it was. A
\* tool call makes no Feed Client call after one that failed and returns that failure once.
C24_FailsOnceNoRetry ==
    /\ (last.op \in FeedOps) =>
           /\ OneRequestNoLogin(last.reqs, last.net)
           /\ auth_token = last.token
           /\ (last.net = 1 /\ FailedAnswer(last.replies[1])) =>
                  TransportErrorOf(last.out, last.replies[1])
    /\ (last.op \in ToolOps) =>
           /\ auth_token = last.token
           /\ \A i \in 1..Len(last.calls) :
                  /\ OneRequestNoLogin(last.calls[i].reqs, last.calls[i].net)
                  /\ (last.calls[i].net = 1 /\ FailedAnswer(last.calls[i].reply)) =>
                         /\ TransportErrorOf(last.calls[i].out, last.calls[i].reply)
                         /\ i = Len(last.calls)
                         /\ last.out = Ok(PyStr("Error: " \o last.calls[i].out.err.msg))

C24_Witness ==
    /\ last.op = "get_articles"
    /\ Truthy(last.token)
    /\ last.replies[1].t = "resp"
    /\ last.replies[1].status = 403
    /\ last.net = 1
    /\ Len(last.reqs) = 1
    /\ ~last.out.ok
    /\ last.out.err.cls = "HTTPStatusError"
    /\ auth_calls = 1

C24_WitnessTool ==
    /\ last.op = "tool.list_feeds"
    /\ Len(last.calls) = 2
    /\ last.calls[2].reply = Status(500)
    /\ last.calls[2].net = 1
    /\ last.out = Ok(PyStr("Error: HTTP status 500"))

\* C25: a SIGTERM or SIGINT that ends the serving of main() leaves handle_shutdown completed:
\* the client's transport closed and the process exited with status 0.
C25_ShutdownWhileServing ==
    [][(host = "main" /\ pc = "serving" /\ pc' # "serving") => (pc' = "exited" /\ is_closed')]_vars

\* the answers a finished tool call received, in order, for a call of the same tool made alone
AnswersOf(calls) == [i \in 1..2 |-> IF i <= Len(calls) THEN calls[i].reply ELSE NoReply]

\* what the tool call returns when it is the only one in flight and gets those answers
Alone(call, tok, closed, replies, seed) ==
    IF call.tool = "tool.list_feeds" THEN tool_list_feeds(tok, closed, replies, seed)
    ELSE tool_get_feed_info(tok, closed, replies, seed, call.feed_id)

\* C26: with tool calls in flight together on one client, the token stays what it was when
\* each call was made, every request carries it, and under every interleaving a finished
\* call has made the Feed Client calls and returned the result that the same call returns
\* when run alone against the answers its own requests got.
C26_CallsDoNotInterfere ==
    \A t \in Tasks :
        /\ ret[t].pc # "ready" => auth_token = ret[t].tok0
        /\ \A i \in 1..Len(ret[t].calls) :
               \A k \in 1..Len(ret[t].calls[i].reqs) :
                   ret[t].calls[i].reqs[k].headers.Authorization
                       = "GoogleLogin auth=" \o ret[t].tok0.v
        /\ ret[t].pc = "done" =>
               \E alone \in {Alone(arg[t], ret[t].tok0, is_closed, AnswersOf(ret[t].calls), hashseed)} :
                   /\ ret[t].out = alone.out
                   /\ ret[t].calls = alone.calls

C26_Witness ==
    /\ arg[1].tool = "tool.list_feeds"
    /\ arg[2] = [tool |-> "tool.get_feed_info", feed_id |-> 123]
    /\ ret[1].pc = "done"
    /\ ret[2].pc = "done"
    /\ Len(ret[1].calls) = 2
    /\ Len(ret[2].calls) = 2
    /\ ret[1].calls[1].reply # ret[2].calls[1].reply
    /\ ret[1].calls[2].reply # ret[2].calls[2].reply
    /\ ~StartsWith(ret[1].out.val.v, "Error: ")
    /\ ~StartsWith(ret[2].out.val.v, "Error: ")

\* C27: the token held is the one the last successful authenticate() returned (none before
\* any): a failed authenticate() leaves it as it was, and no Feed Client call, tool call or
\* aclose(), whether it succeeds or fails, changes or clears it.
C27_TokenOnlyByAuthenticate ==
    /\ auth_token = granted
    /\ (last.op = "authenticate") =>
           auth_token = (IF last.out.ok THEN last.out.val ELSE last.token)
    /\ (last.op \notin {"none", "authenticate"}) => auth_token = last.token

C27_Witness ==
    /\ last.op = "authenticate"
    /\ ~last.out.ok
    /\ last.token = PyStr("abc")
    /\ auth_token = PyStr("abc")
    /\ auth_calls = 2

\* C28: when every fetch of get_unread_articles or search_articles got a 2xx answer with a
\* list of items, the tool returns a listing and not an "Error: " string, and every Article
\* it fetched has a string title, a string summary and an integer published.
C28_BadItemNeverFailsTool ==
    (/\ last.op \in {"tool.get_unread_articles", "tool.search_articles"}
     /\ \A i \in 1..Len(last.calls) : last.calls[i].out.ok) =>
        /\ ~StartsWith(last.out.val.v, "Error: ")
        /\ \A i \in 1..Len(last.calls) :
               \A n \in 1..Len(last.calls[i].out.val) :
                   /\ last.calls[i].out.val[n].title.t = "str"
                   /\ last.calls[i].out.val[n].summary.t = "str"
                   /\ last.calls[i].out.val[n].published.t = "int"

\* C29: get_unread_articles and search_articles called with feed ids fetch the feeds one
\* after another in list order; a fetch that fails is the last one made, and the tool then
\* returns the "Error: " string of that failure and nothing of what it had fetched; when
\* none fails every listed feed has been fetched.
C29_FanOutAllOrNothing ==
    (/\ last.op \in {"tool.get_unread_articles", "tool.search_articles"}
     /\ Truthy(last.args.feed_ids)) =>
        /\ Len(last.calls) <= Len(last.args.feed_ids.v)
        /\ \A i \in 1..Len(last.calls) :
               /\ last.calls[i].op = "get_articles"
               /\ last.calls[i].args.feed_id = last.args.feed_ids.v[i]
               /\ ~last.calls[i].out.ok =>
                      /\ i = Len(last.calls)
                      /\ last.out = Ok(PyStr("Error: " \o last.calls[i].out.err.msg))
        /\ (\A i \in 1..Len(last.calls) : last.calls[i].out.ok) =>
               Len(last.calls) = Len(last.args.feed_ids.v)

C29_Witness ==
    /\ last.op = "tool.get_unread_articles"
    /\ last.args.feed_ids = TwoFeeds
    /\ Len(last.calls) = 2
    /\ last.calls[1].out.ok
    /\ Len(last.calls[1].out.val) = 2
    /\ last.calls[2].reply = Status(401)
    /\ last.calls[2].net = 1
    /\ last.out = Ok(PyStr("Error: HTTP status 401"))

C29_WitnessFirstFails ==
    /\ last.op = "tool.search_articles"
    /\ last.args.feed_ids = TwoFeeds
    /\ Len(last.calls) = 1
    /\ last.calls[1].reply = ConnectionLost
    /\ last.calls[1].net = 1
    /\ last.out = Ok(PyStr("Error: connection lost"))


PerCallOps == {"percall.list_feeds", "percall.get_feed_info"}

\* C30: in the per-call variant, when a tool call has returned or raised, the transport
\* its FreshRSSClient opened is closed: after a successful operation, after a failed
\* operation, and after a failed authentication inside _get_client()
C30_TransportClosedOnReturn ==
    last.op \in PerCallOps => last.transport # "open"

====
